---- MODULE Spec2Model ----
(***************************************************************************)
(* Model of the background script of the timeline exporter                 *)
(* (src/firefox-scraper/background.js, the batch-run version that starts   *)
(* at line 324): the tweet store, the scope queue, the message router and  *)
(* the asynchronous handlers START / STOP / SCROLL_FINISHED, which give    *)
(* up control at every await of a browser API.                             *)
(***************************************************************************)
EXTENDS Integers, Sequences, FiniteSets, Bags, TLC

\* ------------------------------------------------------------------ bounds
\* START commands delivered to the router in one behaviour
MaxStarts == 1
\* STOP and SCROLL_FINISHED commands delivered in one behaviour
MaxEnds == 2
\* STOP commands delivered before the first START (a download by hand)
MaxIdleEnds == 0
\* longest scope list a START carries
MaxScopes == 3

\* ------------------------------------------------------- JavaScript values
\* A JavaScript value is a tagged record: undefined, null, a string, a
\* number, an array (el: its elements) or an object (kv: its properties as
\* <<key, value>> pairs in enumeration order).
Undef == [t |-> "undef"]
Null == [t |-> "null"]
Str(s) == [t |-> "s", v |-> s]
Num(n) == [t |-> "n", v |-> n]
Arr(s) == [t |-> "a", el |-> s]
Obj(kv) == [t |-> "o", kv |-> kv]

IsNullish(v) == v.t \in {"undef", "null"}

\* JavaScript truthiness (Boolean(v), v ? a : b, v || w)
Truthy(v) ==
  CASE v.t \in {"undef", "null"} -> FALSE
    [] v.t = "s" -> v.v # ""
    [] v.t = "n" -> v.v # 0
    [] OTHER -> TRUE

\* v.k for a non-nullish v
Get(v, k) ==
  CASE v.t = "o" ->
         IF \E i \in 1..Len(v.kv) : v.kv[i][1] = k
           THEN v.kv[CHOOSE i \in 1..Len(v.kv) : v.kv[i][1] = k][2]
           ELSE Undef
    [] v.t = "a" /\ k = "length" -> Num(Len(v.el))
    [] OTHER -> Undef

\* v?.k
OptGet(v, k) == IF IsNullish(v) THEN Undef ELSE Get(v, k)

\* a ?? b
Coalesce(a, b) == IF IsNullish(a) THEN b ELSE a

\* a || b
OrElse(a, b) == IF Truthy(a) THEN a ELSE b

\* Object.values(v): the elements of an array, the property values of an object
ObjectValues(v) ==
  CASE v.t = "a" -> v.el
    [] v.t = "o" -> [i \in 1..Len(v.kv) |-> v.kv[i][2]]
    [] OTHER -> <<>>

\* the items [...v] spreads; only arrays are iterable among the values modelled
\* (a string would spread into its characters, which no payload here carries)
IsIterable(v) == v.t = "a"

SeqFilter(s, Keep(_)) ==
  LET F[i \in 0..Len(s)] ==
        IF i = 0 THEN <<>>
        ELSE IF Keep(s[i]) THEN Append(F[i - 1], s[i]) ELSE F[i - 1]
  IN F[Len(s)]

\* ---------------------------------------------------------------- flatten
\* A variant in which `tweet.legacy` is read without the `?? {}`: a tweet
\* without legacy throws as well
FlattenThrowsNoLegacy(tweet) ==
  LET l == Coalesce(Get(tweet, "legacy"), Obj(<<>>))
      refs == Coalesce(Get(l, "referenced_tweets"), Arr(<<>>))
  IN \/ IsNullish(Get(tweet, "legacy"))
     \/ refs.t # "a"
     \/ \E i \in 1..Len(refs.el) : IsNullish(refs.el[i])

\* flatten(tweet): ok = FALSE stands for the TypeError the function throws
\* when referenced_tweets is not an array or holds a nullish element.
FlattenThrows(tweet) ==
  LET l == Coalesce(Get(tweet, "legacy"), Obj(<<>>))
      refs == Coalesce(Get(l, "referenced_tweets"), Arr(<<>>))
  IN \/ refs.t # "a"
     \/ \E i \in 1..Len(refs.el) : IsNullish(refs.el[i])

\* A variant of flatten that lists the retweeted original first
flattenRetweetFirst(tweet) ==
  LET l == Coalesce(Get(tweet, "legacy"), Obj(<<>>))
      u == Coalesce(
             OptGet(OptGet(OptGet(OptGet(tweet, "core"), "user_results"),
                           "result"), "legacy"),
             Obj(<<>>))
      quoted == OptGet(OptGet(tweet, "quoted_status_result"), "result")
      retweeted == OptGet(OptGet(tweet, "retweeted_status_result"), "result")
      refs == Coalesce(Get(l, "referenced_tweets"), Arr(<<>>))
      all == (IF Truthy(OptGet(retweeted, "rest_id"))
                THEN << Get(retweeted, "rest_id") >> ELSE <<>>)
             \o [i \in 1..Len(refs.el) |-> Get(refs.el[i], "id_str")]
             \o << Get(l, "in_reply_to_status_id_str"),
                   Get(l, "quoted_status_id_str"),
                   OptGet(quoted, "rest_id") >>
  IN [ tweet_id |-> Get(tweet, "rest_id"),
       created_at |-> Get(l, "created_at"),
       text |-> OrElse(Get(l, "full_text"), Get(l, "text")),
       lang |-> Get(l, "lang"),
       favorite |-> Get(l, "favorite_count"),
       retweet |-> Get(l, "retweet_count"),
       reply |-> Get(l, "reply_count"),
       quote |-> Get(l, "quote_count"),
       favorite_count |-> Get(l, "favorite_count"),
       retweet_count |-> Get(l, "retweet_count"),
       reply_count |-> Get(l, "reply_count"),
       quote_count |-> Get(l, "quote_count"),
       user_handle |-> Get(u, "screen_name"),
       parent_ids |-> Arr(SeqFilter(all, Truthy)),
       raw |-> tweet ]

\* A variant of flatten without the *_count aliases (the record as it was
\* before they were added)
flattenShortNames(tweet) ==
  LET l == Coalesce(Get(tweet, "legacy"), Obj(<<>>))
      u == Coalesce(
             OptGet(OptGet(OptGet(OptGet(tweet, "core"), "user_results"),
                           "result"), "legacy"),
             Obj(<<>>))
      quoted == OptGet(OptGet(tweet, "quoted_status_result"), "result")
      retweeted == OptGet(OptGet(tweet, "retweeted_status_result"), "result")
      refs == Coalesce(Get(l, "referenced_tweets"), Arr(<<>>))
      all == [i \in 1..Len(refs.el) |-> Get(refs.el[i], "id_str")]
             \o << Get(l, "in_reply_to_status_id_str"),
                   Get(l, "quoted_status_id_str"),
                   OptGet(quoted, "rest_id") >>
             \o (IF Truthy(OptGet(retweeted, "rest_id"))
                   THEN << Get(retweeted, "rest_id") >> ELSE <<>>)
  IN [ tweet_id |-> Get(tweet, "rest_id"),
       created_at |-> Get(l, "created_at"),
       text |-> OrElse(Get(l, "full_text"), Get(l, "text")),
       lang |-> Get(l, "lang"),
       favorite |-> Get(l, "favorite_count"),
       retweet |-> Get(l, "retweet_count"),
       reply |-> Get(l, "reply_count"),
       quote |-> Get(l, "quote_count"),
       favorite_count |-> Undef,
       retweet_count |-> Undef,
       reply_count |-> Undef,
       quote_count |-> Undef,
       user_handle |-> Get(u, "screen_name"),
       parent_ids |-> Arr(SeqFilter(all, Truthy)),
       raw |-> tweet ]

flatten(tweet) ==
  LET l == Coalesce(Get(tweet, "legacy"), Obj(<<>>))
      u == Coalesce(
             OptGet(OptGet(OptGet(OptGet(tweet, "core"), "user_results"),
                           "result"), "legacy"),
             Obj(<<>>))
      quoted == OptGet(OptGet(tweet, "quoted_status_result"), "result")
      retweeted == OptGet(OptGet(tweet, "retweeted_status_result"), "result")
      refs == Coalesce(Get(l, "referenced_tweets"), Arr(<<>>))
      all == [i \in 1..Len(refs.el) |-> Get(refs.el[i], "id_str")]
             \o << Get(l, "in_reply_to_status_id_str"),
                   Get(l, "quoted_status_id_str"),
                   OptGet(quoted, "rest_id") >>
             \o (IF Truthy(OptGet(retweeted, "rest_id"))
                   THEN << Get(retweeted, "rest_id") >> ELSE <<>>)
  IN [ tweet_id |-> Get(tweet, "rest_id"),
       created_at |-> Get(l, "created_at"),
       text |-> OrElse(Get(l, "full_text"), Get(l, "text")),
       lang |-> Get(l, "lang"),
       favorite |-> Get(l, "favorite_count"),
       retweet |-> Get(l, "retweet_count"),
       reply |-> Get(l, "reply_count"),
       quote |-> Get(l, "quote_count"),
       favorite_count |-> Get(l, "favorite_count"),
       retweet_count |-> Get(l, "retweet_count"),
       reply_count |-> Get(l, "reply_count"),
       quote_count |-> Get(l, "quote_count"),
       user_handle |-> Get(u, "screen_name"),
       parent_ids |-> Arr(SeqFilter(all, Truthy)),
       raw |-> tweet ]

\* -------------------------------------------------------- extractTimeline
\* Pre-order depth-first search for the first object whose `instructions`
\* is an array; Null when there is none.
RECURSIVE extractTimeline(_)
RECURSIVE FirstTimeline(_)
RECURSIVE LastTimeline(_)
\* A variant of the search through the properties that enumerates them
\* last to first
LastTimeline(vals) ==
  IF vals = <<>> THEN Null
  ELSE LET r == LastTimeline(Tail(vals))
       IN IF Truthy(r) THEN r ELSE extractTimeline(Head(vals))

FirstTimeline(vals) ==
  IF vals = <<>> THEN Null
  ELSE LET r == extractTimeline(Head(vals))
       IN IF Truthy(r) THEN r ELSE FirstTimeline(Tail(vals))

extractTimeline(obj) ==
  IF ~Truthy(obj) \/ obj.t \notin {"o", "a"} THEN Null
  ELSE IF Truthy(Get(obj, "instructions")) /\ Get(obj, "instructions").t = "a"
    THEN obj
    ELSE FirstTimeline(ObjectValues(obj))

\* ------------------------------------------------------ the tweet store
\* `tweets` is a JavaScript Map: a sequence of [key, rec] in insertion order.
MapHas(map, k) == \E i \in 1..Len(map) : map[i].key = k

\* map.set(k, rec) for a key the map does not hold yet
MapSet(map, k, rec) == Append(map, [key |-> k, rec |-> rec])

MapKeys(map) == {map[i].key : i \in 1..Len(map)}

\* the properties of a flattened record, in the order flatten lists them
FlatKeys ==
  << "tweet_id", "created_at", "text", "lang", "favorite", "retweet", "reply",
     "quote", "favorite_count", "retweet_count", "reply_count", "quote_count",
     "user_handle", "parent_ids", "raw" >>

\* what JSON.stringify keeps of a value: a property whose value is undefined
\* is left out, an undefined array element becomes null
RECURSIVE JsonValue(_)
JsonValue(v) ==
  CASE v.t = "o" ->
         LET kept == SeqFilter(v.kv, LAMBDA q : q[2] # Undef)
         IN Obj([i \in 1..Len(kept) |-> << kept[i][1], JsonValue(kept[i][2]) >>])
    [] v.t = "a" ->
         Arr([i \in 1..Len(v.el) |->
                IF v.el[i] = Undef THEN Null ELSE JsonValue(v.el[i])])
    [] OTHER -> v

\* JSON.stringify(j) for a flattened record j: one line, its properties as
\* <<name, value>> pairs
JsonStringify(rec) ==
  LET kept == SeqFilter(FlatKeys, LAMBDA k : rec[k] # Undef)
  IN [i \in 1..Len(kept) |-> << kept[i], JsonValue(rec[kept[i]]) >>]

\* A variant of jsonl that emits the newest record first
jsonlNewestFirst(map) ==
  [i \in 1..Len(map) |-> JsonStringify(map[Len(map) + 1 - i].rec)]

\* jsonl(map): one line per stored record, in insertion order
jsonl(map) == [i \in 1..Len(map) |-> JsonStringify(map[i].rec)]

\* ------------------------------------------- PROCESS_TIMELINE_DATA, the walk
\* The walk threads st = [tw: the store, added: the counter, ok: FALSE once
\* an exception was thrown (the store keeps what was set before the throw)].
InstrTypes ==
  {"TimelineAddEntries", "TimelineReplaceEntry", "TimelineAddToModule",
   "TimelineTerminateTimeline", "TimelinePinEntry"}

\* the entry list an instruction resolves to
ResolveRoot(instr) ==
  Coalesce(
    Get(instr, "entries"),
    Coalesce(
      IF Truthy(Get(instr, "entry"))
        THEN Arr(<< Get(instr, "entry") >>)
        ELSE Coalesce(OptGet(Get(instr, "module"), "items"), Arr(<<>>)),
      Arr(<<>>)))

\* A variant of the leaf step without the tweets.has test: tweets.set
\* replaces the record of a stored id and the tweet is counted again
StoreEntryOverwrite(ent, st) ==
  LET itemContent ==
        OptGet(Coalesce(Get(ent, "content"), Get(ent, "item")), "itemContent")
      tw == OptGet(OptGet(itemContent, "tweet_results"), "result")
      k == Get(tw, "rest_id")
  IN IF OptGet(tw, "__typename") = Str("Tweet")
       THEN IF MapHas(st.tw, k)
              THEN [st EXCEPT
                      !.tw = [i \in 1..Len(@) |->
                                IF @[i].key = k
                                  THEN [key |-> k, rec |-> flatten(tw)]
                                  ELSE @[i]],
                      !.added = @ + 1]
              ELSE [st EXCEPT !.tw = MapSet(@, k, flatten(tw)),
                              !.added = @ + 1]
       ELSE st

\* A variant of the leaf step that keeps every tweet it meets, stored id
\* or not
StoreEntryAppend(ent, st) ==
  LET itemContent ==
        OptGet(Coalesce(Get(ent, "content"), Get(ent, "item")), "itemContent")
      tw == OptGet(OptGet(itemContent, "tweet_results"), "result")
  IN IF OptGet(tw, "__typename") = Str("Tweet")
       THEN [st EXCEPT !.tw = MapSet(@, Get(tw, "rest_id"), flatten(tw)),
                       !.added = @ + 1]
       ELSE st

\* a leaf entry: resolve the tweet and store it unless its id is stored
StoreEntry(ent, st) ==
  LET itemContent ==
        OptGet(Coalesce(Get(ent, "content"), Get(ent, "item")), "itemContent")
      tw == OptGet(OptGet(itemContent, "tweet_results"), "result")
      entryType ==
        OrElse(Get(ent, "entryId"),
               OrElse(OptGet(Get(ent, "content"), "entryType"), Str("unknown")))
  IN IF OptGet(tw, "__typename") = Str("Tweet")
       THEN IF MapHas(st.tw, Get(tw, "rest_id")) THEN st
            ELSE IF FlattenThrows(tw) THEN [st EXCEPT !.ok = FALSE]
            ELSE [st EXCEPT !.tw = MapSet(@, Get(tw, "rest_id"), flatten(tw)),
                            !.added = @ + 1]
       \* the logging branch calls entryType.includes(...)
       ELSE IF entryType.t \in {"s", "a"} THEN st
            ELSE [st EXCEPT !.ok = FALSE]

\* A variant of the walk that puts the nested entries of a wrapper at the
\* front of the queue (queue.unshift for queue.push): depth-first
RECURSIVE WalkDepthFirst(_, _)
WalkDepthFirst(queue, st) ==
  IF queue = <<>> \/ ~st.ok THEN st
  ELSE
    LET ent == Head(queue)
        cItems == OptGet(OptGet(ent, "content"), "items")
        iItems == OptGet(OptGet(ent, "item"), "items")
    IN IF Truthy(OptGet(cItems, "length"))
         THEN IF IsIterable(cItems)
                THEN WalkDepthFirst(cItems.el \o Tail(queue), st)
                ELSE [st EXCEPT !.ok = FALSE]
       ELSE IF Truthy(OptGet(iItems, "length"))
         THEN IF IsIterable(iItems)
                THEN WalkDepthFirst(iItems.el \o Tail(queue), st)
                ELSE [st EXCEPT !.ok = FALSE]
       ELSE IF IsNullish(ent) THEN [st EXCEPT !.ok = FALSE]
       ELSE WalkDepthFirst(Tail(queue), StoreEntry(ent, st))

RECURSIVE Walk(_, _)
Walk(queue, st) ==
  IF queue = <<>> \/ ~st.ok THEN st
  ELSE
    LET ent == Head(queue)
        cItems == OptGet(OptGet(ent, "content"), "items")
        iItems == OptGet(OptGet(ent, "item"), "items")
    IN IF Truthy(OptGet(cItems, "length"))
         THEN IF IsIterable(cItems) THEN Walk(Tail(queue) \o cItems.el, st)
              ELSE [st EXCEPT !.ok = FALSE]
       ELSE IF Truthy(OptGet(iItems, "length"))
         THEN IF IsIterable(iItems) THEN Walk(Tail(queue) \o iItems.el, st)
              ELSE [st EXCEPT !.ok = FALSE]
       ELSE IF IsNullish(ent) THEN [st EXCEPT !.ok = FALSE]
       ELSE Walk(Tail(queue), StoreEntry(ent, st))

\* A variant of the dispatcher without the allow-list: every instruction
\* that is not a cache clear is walked
RECURSIVE DispatchAnyKind(_, _)
DispatchAnyKind(instrs, st) ==
  IF instrs = <<>> \/ ~st.ok THEN st
  ELSE
    LET instr == Head(instrs)
    IN IF IsNullish(instr) THEN [st EXCEPT !.ok = FALSE]
       ELSE IF Get(instr, "type") = Str("TimelineClearCache")
         THEN DispatchAnyKind(Tail(instrs), [st EXCEPT !.tw = <<>>])
       ELSE LET root == ResolveRoot(instr)
            IN IF ~IsIterable(root) THEN [st EXCEPT !.ok = FALSE]
               ELSE DispatchAnyKind(Tail(instrs), Walk(root.el, st))

\* A variant of the dispatcher that skips a cache clear like any other
\* instruction outside the allow-list
RECURSIVE DispatchKeepCache(_, _)
DispatchKeepCache(instrs, st) ==
  IF instrs = <<>> \/ ~st.ok THEN st
  ELSE
    LET instr == Head(instrs)
    IN IF IsNullish(instr) THEN [st EXCEPT !.ok = FALSE]
       ELSE IF Get(instr, "type").t # "s" \/ Get(instr, "type").v \notin InstrTypes
         THEN DispatchKeepCache(Tail(instrs), st)
       ELSE LET root == ResolveRoot(instr)
            IN IF ~IsIterable(root) THEN [st EXCEPT !.ok = FALSE]
               ELSE DispatchKeepCache(Tail(instrs), Walk(root.el, st))

RECURSIVE Dispatch(_, _)
Dispatch(instrs, st) ==
  IF instrs = <<>> \/ ~st.ok THEN st
  ELSE
    LET instr == Head(instrs)
    IN IF IsNullish(instr) THEN [st EXCEPT !.ok = FALSE]
       ELSE IF Get(instr, "type") = Str("TimelineClearCache")
         THEN Dispatch(Tail(instrs), [st EXCEPT !.tw = <<>>])
       ELSE IF Get(instr, "type").t # "s" \/ Get(instr, "type").v \notin InstrTypes
         THEN Dispatch(Tail(instrs), st)
       ELSE LET root == ResolveRoot(instr)
            IN IF ~IsIterable(root) THEN [st EXCEPT !.ok = FALSE]
               ELSE Dispatch(Tail(instrs), Walk(root.el, st))

\* msg.data is text: parses says whether JSON.parse accepts it, val is the
\* value it then yields.
JsonParse(data) == IF data.parses THEN [ok |-> TRUE, val |-> data.val]
                   ELSE [ok |-> FALSE, val |-> Undef]

\* The PROCESS_TIMELINE_DATA case: the store it leaves and the reply it sends.
NoReply == [sent |-> FALSE, success |-> FALSE, added |-> 0, total |-> 0]
OkReply == [sent |-> TRUE, success |-> TRUE, added |-> 0, total |-> 0]
FailReply == [sent |-> TRUE, success |-> FALSE, added |-> 0, total |-> 0]

\* A variant of the case that empties the store when the response does not
\* parse or holds no timeline
ProcessTimelineDataResets(data, map) ==
  LET page == JsonParse(data)
      tl == IF page.ok THEN extractTimeline(page.val) ELSE Null
      st == IF Truthy(tl)
              THEN Dispatch(Get(tl, "instructions").el,
                            [tw |-> map, added |-> 0, ok |-> TRUE])
              ELSE [tw |-> <<>>, added |-> 0, ok |-> FALSE]
  IN [ tw |-> st.tw,
       reply |-> IF st.ok
                   THEN [sent |-> TRUE, success |-> TRUE,
                         added |-> st.added, total |-> Len(st.tw)]
                   ELSE FailReply ]

ProcessTimelineData(data, map) ==
  LET page == JsonParse(data)
      tl == IF page.ok THEN extractTimeline(page.val) ELSE Null
      st == IF Truthy(tl)
              THEN Dispatch(Get(tl, "instructions").el,
                            [tw |-> map, added |-> 0, ok |-> TRUE])
              ELSE [tw |-> map, added |-> 0, ok |-> FALSE]
  IN [ tw |-> st.tw,
       reply |-> IF st.ok
                   THEN [sent |-> TRUE, success |-> TRUE,
                         added |-> st.added, total |-> Len(st.tw)]
                   ELSE FailReply ]

\* ---------------------------------------------------------------- state
VARIABLES
  tweets,         \* the Map tweet_id -> flattened record
  scopeQueue,     \* scopes still to run
  currentScope,   \* the scope being captured (null before the first START)
  startParams,    \* the parameters of the last START
  savedUsername,  \* the user name remembered by makeUrl
  tab,            \* the active tab: its location and whether it is loading
  listeners,      \* one-shot tabs.onUpdated listeners registered by beginScope
  scroller,       \* the scroll driver of the tab's page
  inflight,       \* the handlers suspended at an await (a bag)
  sink,           \* the files the browser accepted, in order: the scope tag
                  \* in the name, the phase whose download() wrote it (from),
                  \* the phase in which it was accepted (at) and the scope
                  \* that was current then
  phase,          \* beginScope calls since the last START (0 before it)
  ev,             \* the step just taken: its input, outbound calls and reply
  done,           \* "Batch run complete" was logged since the last START
  nstart,         \* START commands delivered so far
  nend            \* STOP and SCROLL_FINISHED commands delivered so far

vars == << tweets, scopeQueue, currentScope, startParams, savedUsername, tab,
           listeners, scroller, inflight, sink, phase, ev, done, nstart,
           nend >>

\* ------------------------------------------------------------- locations
\* A location is [host, seg, sub]: https://<host>/<seg>/<sub>.
Loc(h, g, b) == [host |-> h, seg |-> g, sub |-> b]

ScopeTags == {"tweets", "replies", "likes", "bookmarks"}

RESERVED ==
  {"i", "home", "explore", "notifications", "messages", "settings", "search"}

\* A variant of makeUrl that uses only the name the location shows: nothing
\* is remembered from earlier calls
makeUrlForgets(scope, baseUrl, saved) ==
  LET extracted ==
        IF baseUrl.host \in {"x.com", "twitter.com"} /\ baseUrl.seg # ""
          THEN Str(baseUrl.seg) ELSE Null
      username ==
        IF Truthy(extracted) /\ extracted.v \notin RESERVED
          THEN extracted ELSE Null
      url ==
        IF ~Truthy(username) THEN baseUrl
        ELSE CASE scope = Str("tweets") -> Loc("x.com", username.v, "")
               [] scope = Str("replies") -> Loc("x.com", username.v, "with_replies")
               [] scope = Str("likes") -> Loc("x.com", username.v, "likes")
               [] scope = Str("bookmarks") -> Loc("x.com", "i", "bookmarks")
               [] OTHER -> baseUrl
  IN [saved |-> username, url |-> url]

\* makeUrl(scope, baseUrl): the user name it leaves in savedUsername and the
\* location it returns
makeUrl(scope, baseUrl, saved) ==
  LET extracted ==
        IF baseUrl.host \in {"x.com", "twitter.com"} /\ baseUrl.seg # ""
          THEN Str(baseUrl.seg) ELSE Null
      username ==
        IF Truthy(extracted) /\ extracted.v \notin RESERVED
          THEN extracted ELSE saved
      url ==
        IF ~Truthy(username) THEN baseUrl
        ELSE CASE scope = Str("tweets") -> Loc("x.com", username.v, "")
               [] scope = Str("replies") -> Loc("x.com", username.v, "with_replies")
               [] scope = Str("likes") -> Loc("x.com", username.v, "likes")
               [] scope = Str("bookmarks") -> Loc("x.com", "i", "bookmarks")
               [] OTHER -> baseUrl
  IN [saved |-> username, url |-> url]

\* A variant of the location tests that tries the bare profile first
ScopeFromUrlProfileFirst(url) ==
  IF url.host \in {"x.com", "twitter.com"} /\ url.seg # "" /\ url.sub = ""
    THEN "tweets"
  ELSE IF "likes" \in {url.seg, url.sub} THEN "likes"
  ELSE IF url.seg = "i" /\ url.sub = "bookmarks" THEN "bookmarks"
  ELSE IF "with_replies" \in {url.seg, url.sub} THEN "replies"
  ELSE "bookmarks"

\* the file-name scope download() derives from the active tab's location:
\* a path segment "likes", the path /i/bookmarks, a path segment
\* "with_replies", a one-segment path on x.com or twitter.com, in this order
ScopeFromUrl(url) ==
  IF "likes" \in {url.seg, url.sub} THEN "likes"
  ELSE IF url.seg = "i" /\ url.sub = "bookmarks" THEN "bookmarks"
  ELSE IF "with_replies" \in {url.seg, url.sub} THEN "replies"
  ELSE IF url.host \in {"x.com", "twitter.com"} /\ url.seg # "" /\ url.sub = ""
    THEN "tweets"
  ELSE "bookmarks"

\* ----------------------------------------------------------------- inputs
InitLocs ==
  { Loc("x.com", "alice", ""), Loc("x.com", "i", "bookmarks") }

StartTags == {"tweets", "bookmarks"}

\* msg.scopes: absent, or an array of at most MaxScopes scope tags, none
\* twice in a row
ScopeLists ==
  {Undef} \cup
  { Arr([i \in DOMAIN f |-> Str(f[i])]) :
      f \in { g \in UNION {[1..m -> StartTags] : m \in 0..MaxScopes} :
                \A i \in DOMAIN g : i = 1 \/ g[i] # g[i - 1] } }

\* msg.maxScrolls as the popup sends it when a scroll count is entered
Budgets == {Num(3)}

\* timeline responses the interceptor relays
TweetNode(id, text) ==
  Obj(<< <<"__typename", Str("Tweet")>>, <<"rest_id", Str(id)>>,
         <<"legacy", Obj(<< <<"full_text", Str(text)>>,
                            <<"favorite_count", Num(3)>> >>)>> >>)

TweetEntry(tw) ==
  Obj(<< <<"entryId", Str("tweet")>>,
         <<"content",
           Obj(<< <<"itemContent",
                    Obj(<< <<"tweet_results", Obj(<< <<"result", tw>> >>)>> >>)>>
               >>)>> >>)

AddEntries(entries) ==
  Obj(<< <<"type", Str("TimelineAddEntries")>>, <<"entries", Arr(entries)>> >>)

ClearCache == Obj(<< <<"type", Str("TimelineClearCache")>> >>)

Page(instrs) ==
  Obj(<< <<"data",
           Obj(<< <<"timeline", Obj(<< <<"instructions", Arr(instrs)>> >>)>> >>)>>
      >>)

Text(val) == [parses |-> TRUE, val |-> val]
Garbage == [parses |-> FALSE, val |-> Undef]

Payloads ==
  { Text(Page(<< AddEntries(<< TweetEntry(TweetNode("1", "hi")) >>) >>)),
    Text(Page(<< AddEntries(<< TweetEntry(TweetNode("1", "hi")),
                               TweetEntry(TweetNode("2", "yo")) >>) >>)),
    Text(Page(<< AddEntries(<< TweetEntry(TweetNode("2", "yo")) >>),
                 ClearCache,
                 AddEntries(<< TweetEntry(TweetNode("1", "hi")) >>) >>)),
    Garbage }

\* ---------------------------------------------------------- handlers
\* A suspended handler: the command it serves, the await it is parked at
\* (pc), and the locals it holds across the await.
Handler(cmd, pc, scope, target, tag, snap) ==
  [cmd |-> cmd, pc |-> pc, scope |-> scope, target |-> target, tag |-> tag,
   snap |-> snap, phase |-> phase]

NoLoc == Loc("", "", "")

One(h) == SetToBag({h})

InFlight == BagToSet(inflight)

\* an outbound call of a step
Out(k, arg) == [k |-> k, arg |-> arg]

\* act: the command served; step: the code segment that ran; inp: msg.data
\* of the message the step took up (PROCESS_TIMELINE_DATA only)
NoData == [parses |-> FALSE, val |-> Null]

Event(act, step, out, reply) ==
  [act |-> act, step |-> step, out |-> out, reply |-> reply, inp |-> NoData]

Init ==
  /\ tweets = <<>>
  /\ scopeQueue = <<>>
  /\ currentScope = Null
  /\ startParams = [maxScrolls |-> Undef]
  /\ savedUsername = Null
  /\ tab \in {[url |-> u, loading |-> FALSE] : u \in InitLocs}
  /\ listeners = 0
  /\ scroller = "idle"
  /\ inflight = EmptyBag
  /\ sink = <<>>
  /\ phase = 0
  /\ ev = Event("init", "init", <<>>, NoReply)
  /\ done = FALSE
  /\ nstart = 0
  /\ nend = 0

\* beginScope up to its first await (tabs.query): the scope becomes current
\* and the handler parks; `rest` are the other suspended handlers.
BeginScope(cmd, step, scope, rest, out) ==
  /\ currentScope' = scope
  /\ inflight' = rest (+) One(Handler(cmd, "bs_query", scope, NoLoc, "", <<>>))
  /\ ev' = Event(cmd, step, out, NoReply)

\* case "START"
Start(scopes, maxScrolls) ==
  LET queue == IF scopes.t = "a" THEN scopes.el ELSE << Str("tweets") >>
      first == IF queue = <<>> THEN Undef ELSE Head(queue)
  IN /\ nstart < MaxStarts
     /\ nstart' = nstart + 1
     /\ tweets' = <<>>
     /\ scopeQueue' = IF queue = <<>> THEN <<>> ELSE Tail(queue)
     /\ startParams' = [maxScrolls |-> maxScrolls]
     /\ done' = FALSE
     /\ phase' = 1
     /\ BeginScope("START", "enter", first, inflight, <<>>)
     /\ UNCHANGED << savedUsername, tab, listeners, scroller, sink, nend >>

\* the listener beginScope registers, and the reply of the handler that
\* awaited beginScope
BeginScopeDone(h, url, loading) ==
  /\ tab' = [url |-> url, loading |-> loading]
  /\ listeners' = listeners + 1
  /\ scroller' = "idle"
  /\ inflight' = inflight (-) One(h)

\* A variant of beginScope that does nothing when the tab is at the target
\* (no tabs.reload): it only registers the listener
BeginScopeQueriedNoReload(h) ==
  LET m == makeUrl(h.scope, tab.url, savedUsername)
  IN /\ h.pc = "bs_query"
     /\ savedUsername' = m.saved
     /\ IF tab.url # m.url
          THEN /\ inflight' = (inflight (-) One(h))
                                (+) One([h EXCEPT !.pc = "bs_nav", !.target = m.url])
               /\ ev' = Event(h.cmd, "bs_query", << Out("tabs.update", m.url) >>, NoReply)
               /\ UNCHANGED << tab, listeners, scroller >>
          ELSE /\ BeginScopeDone(h, tab.url, tab.loading)
               /\ ev' = Event(h.cmd, "bs_query", <<>>, OkReply)
     /\ UNCHANGED << tweets, scopeQueue, currentScope, startParams, sink, phase,
                     done, nstart, nend >>

\* beginScope after tabs.query: makeUrl, then navigate (await tabs.update)
\* or reload
BeginScopeQueried(h) ==
  LET m == makeUrl(h.scope, tab.url, savedUsername)
  IN /\ h.pc = "bs_query"
     /\ savedUsername' = m.saved
     /\ IF tab.url # m.url
          THEN /\ inflight' = (inflight (-) One(h))
                                (+) One([h EXCEPT !.pc = "bs_nav", !.target = m.url])
               /\ ev' = Event(h.cmd, "bs_query", << Out("tabs.update", m.url) >>, NoReply)
               /\ UNCHANGED << tab, listeners, scroller >>
          ELSE /\ BeginScopeDone(h, tab.url, TRUE)
               /\ ev' = Event(h.cmd, "bs_query", << Out("tabs.reload", tab.url) >>, OkReply)
     /\ UNCHANGED << tweets, scopeQueue, currentScope, startParams, sink, phase,
                     done, nstart, nend >>

\* tabs.update resolved: the tab is on its way to the target
BeginScopeNavigated(h) ==
  /\ h.pc = "bs_nav"
  /\ BeginScopeDone(h, h.target, TRUE)
  /\ ev' = Event(h.cmd, "nav_resolved", <<>>, OkReply)
  /\ UNCHANGED << tweets, scopeQueue, currentScope, startParams, savedUsername,
                  sink, phase, done, nstart, nend >>

\* A variant of the rejection path that gives up the run: the scopes still
\* queued are dropped
BeginScopeRejectedAborts(h) ==
  /\ h.pc = "bs_nav"
  /\ inflight' = inflight (-) One(h)
  /\ scopeQueue' = <<>>
  /\ ev' = Event(h.cmd, "nav_rejected", <<>>, FailReply)
  /\ UNCHANGED << tweets, currentScope, startParams, savedUsername,
                  tab, listeners, scroller, sink, phase, done, nstart, nend >>

\* tabs.update rejected: beginScope throws into the router's catch
BeginScopeRejected(h) ==
  /\ h.pc = "bs_nav"
  /\ inflight' = inflight (-) One(h)
  /\ ev' = Event(h.cmd, "nav_rejected", <<>>, FailReply)
  /\ UNCHANGED << tweets, scopeQueue, currentScope, startParams, savedUsername,
                  tab, listeners, scroller, sink, phase, done, nstart, nend >>

\* the tab reports status "complete": every registered listener removes
\* itself and sends SCROLL_START with the current startParams
PageReady ==
  /\ tab.loading
  /\ tab' = [tab EXCEPT !.loading = FALSE]
  /\ listeners' = 0
  /\ scroller' = IF listeners > 0 THEN "scrolling" ELSE scroller
  /\ ev' = Event("onUpdated", "complete",
                 [i \in 1..listeners |-> Out("SCROLL_START", startParams.maxScrolls)],
                 NoReply)
  /\ UNCHANGED << tweets, scopeQueue, currentScope, startParams, savedUsername,
                  inflight, sink, phase, done, nstart, nend >>

\* A variant of the scope advance that takes the next scope from the back
\* of the queue (scopeQueue.pop() for scopeQueue.shift())
AfterDownloadPop(cmd, step, rest, out, tw) ==
  IF scopeQueue # <<>>
    THEN /\ tweets' = <<>>
         /\ scopeQueue' = SubSeq(scopeQueue, 1, Len(scopeQueue) - 1)
         /\ phase' = phase + 1
         /\ BeginScope(cmd, step, scopeQueue[Len(scopeQueue)], rest, out)
         /\ done' = done
    ELSE /\ tweets' = tw
         /\ inflight' = rest
         /\ ev' = Event(cmd, step, out, OkReply)
         /\ done' = TRUE
         /\ UNCHANGED << scopeQueue, currentScope, phase >>

\* A variant of the scope advance that begins the first queued scope and
\* leaves it in the queue (scopeQueue[0] for scopeQueue.shift())
AfterDownloadKeepsQueue(cmd, step, rest, out, tw) ==
  IF scopeQueue # <<>>
    THEN /\ tweets' = <<>>
         /\ scopeQueue' = scopeQueue
         /\ phase' = phase + 1
         /\ BeginScope(cmd, step, Head(scopeQueue), rest, out)
         /\ done' = done
    ELSE /\ tweets' = tw
         /\ inflight' = rest
         /\ ev' = Event(cmd, step, out, OkReply)
         /\ done' = TRUE
         /\ UNCHANGED << scopeQueue, currentScope, phase >>

\* STOP / SCROLL_FINISHED after `await download()`: move on to the next
\* scope or finish; tw is the store download() left behind.
AfterDownload(cmd, step, rest, out, tw) ==
  IF scopeQueue # <<>>
    THEN /\ tweets' = <<>>
         /\ scopeQueue' = Tail(scopeQueue)
         /\ phase' = phase + 1
         /\ BeginScope(cmd, step, Head(scopeQueue), rest, out)
         /\ done' = done
    ELSE /\ tweets' = tw
         /\ inflight' = rest
         /\ ev' = Event(cmd, step, out, OkReply)
         /\ done' = TRUE
         /\ UNCHANGED << scopeQueue, currentScope, phase >>

\* A variant of download() without the test of tweets.size: an empty store
\* is handed to downloads.download like any other
DownloadEnterAlways(cmd, out) ==
  IF Truthy(currentScope)
    THEN /\ inflight' = inflight (+) One(Handler(cmd, "dl_sink", Undef, NoLoc,
                                                 currentScope.v, jsonl(tweets)))
         /\ ev' = Event(cmd, "enter",
                        out \o << Out("downloads.download",
                                      [tag |-> currentScope.v,
                                       recs |-> jsonl(tweets)]) >>,
                        NoReply)
         /\ UNCHANGED << tweets, scopeQueue, currentScope, done, phase >>
    ELSE /\ inflight' = inflight (+) One(Handler(cmd, "dl_query", Undef, NoLoc,
                                                 "", <<>>))
         /\ ev' = Event(cmd, "enter", out, NoReply)
         /\ UNCHANGED << tweets, scopeQueue, currentScope, done, phase >>

\* download() up to its first await: nothing to do on an empty store;
\* otherwise the tag is the current scope and the snapshot goes to
\* downloads.download, or the tag waits for tabs.query.
DownloadEnter(cmd, out) ==
  IF tweets = <<>>
    THEN AfterDownload(cmd, "enter", inflight, out, tweets)
  ELSE IF Truthy(currentScope)
    THEN /\ inflight' = inflight (+) One(Handler(cmd, "dl_sink", Undef, NoLoc,
                                                 currentScope.v, jsonl(tweets)))
         /\ ev' = Event(cmd, "enter",
                        out \o << Out("downloads.download",
                                      [tag |-> currentScope.v,
                                       recs |-> jsonl(tweets)]) >>,
                        NoReply)
         /\ UNCHANGED << tweets, scopeQueue, currentScope, done, phase >>
    ELSE /\ inflight' = inflight (+) One(Handler(cmd, "dl_query", Undef, NoLoc,
                                                 "", <<>>))
         /\ ev' = Event(cmd, "enter", out, NoReply)
         /\ UNCHANGED << tweets, scopeQueue, currentScope, done, phase >>

\* case "STOP"
Stop ==
  /\ nend < MaxEnds
  /\ nstart > 0 \/ nend < MaxIdleEnds
  /\ nend' = nend + 1
  /\ scroller' = "idle"
  /\ DownloadEnter("STOP", << Out("SCROLL_STOP", Undef) >>)
  /\ UNCHANGED << startParams, savedUsername, tab, listeners, sink, nstart >>

\* case "SCROLL_FINISHED", sent by the scroll driver when it ends on its own
ScrollFinished ==
  /\ nend < MaxEnds
  /\ scroller = "scrolling"
  /\ nend' = nend + 1
  /\ scroller' = "idle"
  /\ DownloadEnter("SCROLL_FINISHED", <<>>)
  /\ UNCHANGED << startParams, savedUsername, tab, listeners, sink, nstart >>

\* download() with no current scope, after tabs.query: the tag comes from
\* the tab's location ("bookmarks" when the query fails), then the snapshot
DownloadQueried(h) ==
  /\ h.pc = "dl_query"
  /\ \E queried \in BOOLEAN :
       LET tag == IF queried THEN ScopeFromUrl(tab.url) ELSE "bookmarks"
       IN /\ inflight' = (inflight (-) One(h))
                           (+) One([h EXCEPT !.pc = "dl_sink", !.tag = tag,
                                             !.snap = jsonl(tweets)])
          /\ ev' = Event(h.cmd, "dl_query",
                         << Out("downloads.download",
                                [tag |-> tag, recs |-> jsonl(tweets)]) >>,
                         NoReply)
  /\ UNCHANGED << tweets, scopeQueue, currentScope, startParams, savedUsername,
                  tab, listeners, scroller, sink, phase, done, nstart, nend >>

\* downloads.download resolved: the sink holds the snapshot; download()
\* clears the store and returns to the STOP / SCROLL_FINISHED case
DownloadResolved(h) ==
  /\ h.pc = "dl_sink"
  /\ sink' = Append(sink, [tag |-> h.tag, from |-> h.phase, at |-> phase,
                             scope |-> currentScope])
  /\ AfterDownload(h.cmd, "dl_resolved", inflight (-) One(h),
                   << Out("accepted", [tag |-> h.tag, recs |-> h.snap]) >>, <<>>)
  /\ UNCHANGED << startParams, savedUsername, tab, listeners, scroller, nstart, nend >>

\* A variant of the rejection path that clears the store before it rethrows
\* (tweets.clear() in a finally block)
DownloadRejectedClears(h) ==
  /\ h.pc = "dl_sink"
  /\ tweets' = <<>>
  /\ inflight' = inflight (-) One(h)
  /\ ev' = Event(h.cmd, "dl_rejected", <<>>, FailReply)
  /\ UNCHANGED << scopeQueue, currentScope, startParams, savedUsername,
                  tab, listeners, scroller, sink, phase, done, nstart, nend >>

\* downloads.download rejected: download() rethrows into the router's catch
DownloadRejected(h) ==
  /\ h.pc = "dl_sink"
  /\ inflight' = inflight (-) One(h)
  /\ ev' = Event(h.cmd, "dl_rejected", <<>>, FailReply)
  /\ UNCHANGED << tweets, scopeQueue, currentScope, startParams, savedUsername,
                  tab, listeners, scroller, sink, phase, done, nstart, nend >>

\* A variant of the PROCESS_TIMELINE_DATA case that awaits between
\* JSON.parse and the walk: it parks with the store untouched and no reply
ProcessYields(data) ==
  /\ inflight' = inflight (+) One(Handler("PROCESS", "pt_parsed", Undef, NoLoc,
                                           "", <<>>))
  /\ ev' = Event("PROCESS", "enter", <<>>, NoReply)
  /\ UNCHANGED << tweets, scopeQueue, currentScope, startParams, savedUsername,
                  tab, listeners, scroller, sink, phase, done, nstart, nend >>

\* A variant of the PROCESS_TIMELINE_DATA case that hands the store to
\* downloads.download as soon as a response has added a record
ProcessAutoFlush(data) ==
  LET r == ProcessTimelineData(data, tweets)
  IN /\ tweets' = r.tw
     /\ ev' = [Event("PROCESS", "enter",
                     IF r.reply.added > 0
                       THEN << Out("downloads.download",
                                   [tag |-> "bookmarks", recs |-> jsonl(r.tw)]) >>
                       ELSE <<>>,
                     r.reply) EXCEPT !.inp = data]
     /\ UNCHANGED << scopeQueue, currentScope, startParams, savedUsername, tab,
                     listeners, scroller, inflight, sink, phase, done, nstart, nend >>

\* case "PROCESS_TIMELINE_DATA": no await, the whole case is one step
Process(data) ==
  LET r == ProcessTimelineData(data, tweets)
  IN /\ tweets' = r.tw
     /\ ev' = [Event("PROCESS", "enter", <<>>, r.reply) EXCEPT !.inp = data]
     /\ UNCHANGED << scopeQueue, currentScope, startParams, savedUsername, tab,
                     listeners, scroller, inflight, sink, phase, done, nstart, nend >>

\* A variant of the CLEAR case that resets the run as well as the store
ClearResetsRun ==
  /\ tweets' = <<>>
  /\ scopeQueue' = <<>>
  /\ currentScope' = Null
  /\ ev' = Event("CLEAR", "enter", <<>>, OkReply)
  /\ UNCHANGED << startParams, savedUsername, tab, listeners, scroller,
                  inflight, sink, phase, done, nstart, nend >>

\* case "CLEAR"
Clear ==
  /\ tweets' = <<>>
  /\ ev' = Event("CLEAR", "enter", <<>>, OkReply)
  /\ UNCHANGED << scopeQueue, currentScope, startParams, savedUsername, tab,
                  listeners, scroller, inflight, sink, phase, done, nstart, nend >>

Next ==
  \/ \E scopes \in ScopeLists, maxScrolls \in Budgets : Start(scopes, maxScrolls)
  \/ Stop
  \/ ScrollFinished
  \/ \E data \in Payloads : Process(data)
  \/ Clear
  \/ \E h \in InFlight : BeginScopeQueried(h)
  \/ \E h \in InFlight : BeginScopeNavigated(h)
  \/ \E h \in InFlight : BeginScopeRejected(h)
  \/ \E h \in InFlight : DownloadQueried(h)
  \/ \E h \in InFlight : DownloadResolved(h)
  \/ \E h \in InFlight : DownloadRejected(h)
  \/ PageReady

Spec == Init /\ [][Next]_vars

\* ------------------------------------------------ the pipeline on its own
\* The PROCESS_TIMELINE_DATA and CLEAR cases applied, in any order, to
\* responses of every shape the locator, the dispatcher and the walker tell
\* apart, in an idle extension and in the middle of a run.

\* a leaf entry that holds its tweet under item.itemContent
ItemEntry(tw) ==
  Obj(<< <<"entryId", Str("item")>>,
         <<"item",
           Obj(<< <<"itemContent",
                    Obj(<< <<"tweet_results", Obj(<< <<"result", tw>> >>)>> >>)>>
               >>)>> >>)

\* wrappers: the nested entries are under content.items or under item.items
ContentModule(items) ==
  Obj(<< <<"entryId", Str("module")>>,
         <<"content", Obj(<< <<"items", Arr(items)>> >>)>> >>)

ItemModule(items) ==
  Obj(<< <<"entryId", Str("module")>>,
         <<"item", Obj(<< <<"items", Arr(items)>> >>)>> >>)

\* entries without a tweet: a cursor, a tombstone, an entry whose entryId
\* is a number
Cursor ==
  Obj(<< <<"entryId", Str("cursor-bottom")>>,
         <<"content", Obj(<< <<"entryType", Str("TimelineTimelineCursor")>> >>)>>
      >>)

Tombstone == TweetEntry(Obj(<< <<"__typename", Str("TweetTombstone")>> >>))

NumberedEntry == Obj(<< <<"entryId", Num(7)>> >>)

\* an entry with a content object that has no itemContent and the tweet
\* under item.itemContent
SplitEntry(tw) ==
  Obj(<< <<"entryId", Str("split")>>,
         <<"content", Obj(<< <<"entryType", Str("TimelineTimelineItem")>> >>)>>,
         <<"item",
           Obj(<< <<"itemContent",
                    Obj(<< <<"tweet_results", Obj(<< <<"result", tw>> >>)>> >>)>>
               >>)>> >>)

\* an instruction of a kind with the given properties
Instruction(kind, fields) == Obj(<< <<"type", Str(kind)>> >> \o fields)

ModuleOf(items) == Obj(<< <<"items", Arr(items)>> >>)

T1 == TweetNode("1", "hi")
T1b == TweetNode("1", "other")
T2 == TweetNode("2", "yo")
T3 == TweetNode("3", "ok")

Kinds ==
  InstrTypes \cup {"TimelineClearCache", "TimelineShowAlert"}

\* lists of instructions
InstructionLists ==
  \* one instruction of every kind, and one without a type, carrying a tweet
  { << Instruction(k, << <<"entries", Arr(<< TweetEntry(T3) >>)>> >>) >> :
      k \in Kinds }
  \cup
  { << Obj(<< <<"entries", Arr(<< TweetEntry(T3) >>)>> >>) >>,
    \* the same id once, with other fields, and twice in one list
    << AddEntries(<< TweetEntry(T1) >>) >>,
    << AddEntries(<< TweetEntry(T1b) >>) >>,
    << AddEntries(<< TweetEntry(T1), TweetEntry(T1b), TweetEntry(T2) >>) >>,
    \* entries, entry and module.items: alone, together, null, falsy
    << Instruction("TimelineAddToModule",
                   << <<"module", ModuleOf(<< ItemEntry(T2) >>)>> >>) >>,
    << Instruction("TimelineReplaceEntry", << <<"entry", TweetEntry(T2)>> >>) >>,
    << Instruction("TimelineAddEntries",
                   << <<"entries", Arr(<< TweetEntry(T1) >>)>>,
                      <<"entry", TweetEntry(T2)>>,
                      <<"module", ModuleOf(<< ItemEntry(T3) >>)>> >>) >>,
    << Instruction("TimelineReplaceEntry",
                   << <<"entries", Null>>,
                      <<"entry", TweetEntry(T2)>>,
                      <<"module", ModuleOf(<< ItemEntry(T3) >>)>> >>) >>,
    << Instruction("TimelineReplaceEntry",
                   << <<"entry", Null>>,
                      <<"module", ModuleOf(<< ItemEntry(T3) >>)>> >>) >>,
    << Instruction("TimelineReplaceEntry",
                   << <<"entry", Str("")>>,
                      <<"module", ModuleOf(<< ItemEntry(T3) >>)>> >>) >>,
    << Instruction("TimelineAddEntries", <<>>) >>,
    \* a cache clear between two additions
    << AddEntries(<< TweetEntry(T2) >>), ClearCache,
       AddEntries(<< TweetEntry(T1) >>) >>,
    << AddEntries(<< TweetEntry(T1) >>), ClearCache,
       AddEntries(<< TweetEntry(T1b) >>) >>,
    \* wrappers: one level, two levels, empty
    << Instruction("TimelineAddToModule",
                   << <<"module",
                        ModuleOf(<< ContentModule(<< ItemEntry(T1),
                                                     ItemEntry(T2) >>) >>)>> >>) >>,
    << AddEntries(<< ContentModule(<< ItemModule(<< TweetEntry(T1) >>),
                                      TweetEntry(T2) >>),
                     TweetEntry(T3) >>) >>,
    << AddEntries(<< ContentModule(<<>>), TweetEntry(T1) >>) >>,
    \* the two places of itemContent
    << AddEntries(<< ItemEntry(T1) >>) >>,
    << AddEntries(<< SplitEntry(T1), TweetEntry(T2) >>) >>,
    \* entries without a tweet before a tweet
    << AddEntries(<< Cursor, Tombstone, TweetEntry(T1) >>) >>,
    << AddEntries(<< NumberedEntry, TweetEntry(T1) >>) >>,
    << AddEntries(<< Null, TweetEntry(T1) >>) >> }

\* parsed responses in which the instruction list is not where Page puts it,
\* or is nowhere
OddPages ==
  { Null,
    Num(5),
    Obj(<< <<"data", Obj(<< <<"user", Num(1)>> >>)>> >>),
    Obj(<< <<"instructions", Str("x")>>,
           <<"inner",
             Obj(<< <<"instructions",
                      Arr(<< AddEntries(<< TweetEntry(T1) >>) >>)>> >>)>> >>),
    Obj(<< <<"a",
             Obj(<< <<"x",
                      Obj(<< <<"instructions",
                               Arr(<< AddEntries(<< TweetEntry(T1) >>) >>)>>
                          >>)>> >>)>>,
           <<"b",
             Obj(<< <<"instructions",
                      Arr(<< AddEntries(<< TweetEntry(T2) >>) >>)>> >>)>> >>),
    Obj(<< <<"instructions",
             Arr(<< Obj(<< <<"instructions",
                             Arr(<< AddEntries(<< TweetEntry(T2) >>) >>)>> >>),
                    AddEntries(<< TweetEntry(T1) >>) >>)>> >>),
    Obj(<< <<"a", Obj(<< <<"instructions", Arr(<<>>)>> >>)>>,
           <<"b",
             Obj(<< <<"instructions",
                      Arr(<< AddEntries(<< TweetEntry(T2) >>) >>)>> >>)>> >>),
    Arr(<< Num(0),
           Obj(<< <<"instructions",
                    Arr(<< AddEntries(<< TweetEntry(T1) >>) >>)>> >>) >>) }

\* msg.data of the PROCESS_TIMELINE_DATA messages
PipePayloads ==
  {Garbage} \cup {Text(v) : v \in OddPages}
            \cup {Text(Page(l)) : l \in InstructionLists}

\* the batch-run state: as loaded, or in the first of two scopes
RunStates ==
  { [scope |-> Null, queue |-> <<>>, saved |-> Null, maxScrolls |-> Undef],
    [scope |-> Str("tweets"), queue |-> << Str("bookmarks") >>,
     saved |-> Str("alice"), maxScrolls |-> Num(3)] }

PipeInit ==
  /\ tweets = <<>>
  /\ \E r \in RunStates :
       /\ currentScope = r.scope
       /\ scopeQueue = r.queue
       /\ savedUsername = r.saved
       /\ startParams = [maxScrolls |-> r.maxScrolls]
       /\ phase = IF r.scope = Null THEN 0 ELSE 1
       /\ nstart = IF r.scope = Null THEN 0 ELSE 1
  /\ tab = [url |-> Loc("x.com", "alice", ""), loading |-> FALSE]
  /\ listeners = 0
  /\ scroller = "idle"
  /\ inflight = EmptyBag
  /\ sink = <<>>
  /\ ev = Event("init", "init", <<>>, NoReply)
  /\ done = FALSE
  /\ nend = 0

PipeNext ==
  \/ \E data \in PipePayloads : Process(data)
  \/ Clear

PipeSpec == PipeInit /\ [][PipeNext]_vars

\* ------------------------------------------------------------ properties
Range(s) == {s[i] : i \in DOMAIN s}

EndCmds == {"STOP", "SCROLL_FINISHED"}

\* the arguments of the outbound calls of kind k in step e
Outs(e, k) == {e.out[i].arg : i \in {j \in DOMAIN e.out : e.out[j].k = k}}

\* handlers parked inside download(): between its read of the store and
\* its tweets.clear()
Flushing == {h \in InFlight : h.pc \in {"dl_query", "dl_sink"}}

\* C1: the flush path of STOP / SCROLL_FINISHED removes a record from the
\* store only in a step at which the sink accepted a flush, tagged with the
\* current scope, that holds that record.
C1_ClearedOnlyAfterFlush ==
  [][ev'.act \in EndCmds =>
       \A i \in DOMAIN tweets :
         ~MapHas(tweets', tweets[i].key) =>
           \E f \in Outs(ev', "accepted") :
             /\ Str(f.tag) = currentScope
             /\ JsonStringify(tweets[i].rec) \in Range(f.recs)]_vars

\* C2: in a run whose scopes are scope tags the phases go one after the
\* other: every accepted flush was written by the phase in which the sink
\* accepted it and carries the tag of the scope current then, the phases
\* flush in order and at most once, and the queue is empty once the run is
\* complete.
C2_PhasesInOrder ==
  (\A i \in DOMAIN sink : Truthy(sink[i].scope)) =>
    /\ \A i \in DOMAIN sink :
         /\ sink[i].from = sink[i].at
         /\ Str(sink[i].tag) = sink[i].scope
    /\ \A i, j \in DOMAIN sink : i < j => sink[i].from < sink[j].from
    /\ done => scopeQueue = <<>>

\* C3: after a START the current scope is a scope tag.
C3_CurrentScopeIsTag ==
  nstart > 0 => currentScope.t = "s" /\ currentScope.v \in ScopeTags

\* C4: no command is taken up by the router while a handler is parked
\* inside download(), between its read of the store and its clear.
C4_HandlersSerialized ==
  [][Flushing # {} => ev'.step # "enter"]_vars

\* C5: at most one phase activity exists at a time: a handler starting or
\* flushing a scope, a page load that will start the scroll driver, or the
\* scroll driver running.
C5_OnePhaseActive ==
  BagCardinality(inflight) + listeners
    + (IF scroller = "scrolling" THEN 1 ELSE 0) <= 1

\* C6: every PROCESS step is one whole call: the store goes from its value
\* before the call to the value the full pipeline yields for the payload,
\* the reply is sent in the same step, and no handler is left suspended.
C6_ProcessRunsToCompletion ==
  [][ev'.act = "PROCESS" =>
       /\ \E data \in Payloads :
            LET r == ProcessTimelineData(data, tweets)
            IN tweets' = r.tw /\ ev'.reply = r.reply
       /\ ev'.reply.sent
       /\ inflight' = inflight]_vars

\* a PROCESS call that added a record to what an earlier call stored, while
\* another handler was suspended
C6_Witness ==
  /\ ev.act = "PROCESS"
  /\ ev.reply.added = 1
  /\ ev.reply.total = 2
  /\ inflight # EmptyBag

\* C7: a rejected flush replies success: false and leaves the store, the
\* queue, the current scope and the sink as they were; a STOP /
\* SCROLL_FINISHED handler changes the store only in the step at which the
\* sink accepted its flush.
C7_RejectedFlushKeepsStore ==
  [][/\ ev'.step = "dl_rejected" =>
          /\ ev'.reply = FailReply
          /\ Outs(ev', "accepted") = {}
          /\ UNCHANGED << tweets, scopeQueue, currentScope, sink, phase, done >>
     /\ (ev'.act \in EndCmds /\ tweets' # tweets) =>
          /\ ev'.step = "dl_resolved"
          /\ Outs(ev', "accepted") # {}]_vars

\* a flush was rejected and the store still holds records
C7_Witness ==
  /\ ev.step = "dl_rejected"
  /\ ev.act \in EndCmds
  /\ tweets # <<>>

\* C8: CLEAR can be taken in every state; it empties the store, replies
\* success and leaves the queue, the current scope, the saved user name and
\* the start parameters as they were.
C8_ClearFrame ==
  /\ [](ENABLED Clear)
  /\ [][ev'.act = "CLEAR" =>
          /\ tweets' = <<>>
          /\ ev'.reply = OkReply
          /\ UNCHANGED << scopeQueue, currentScope, savedUsername,
                          startParams >>]_vars

\* a CLEAR taken in the middle of a run, with scopes queued and a handler
\* suspended
C8_Witness ==
  /\ ev.act = "CLEAR"
  /\ tweets = <<>>
  /\ scopeQueue # <<>>
  /\ Truthy(currentScope)
  /\ Truthy(savedUsername)
  /\ startParams.maxScrolls = Num(3)
  /\ inflight # EmptyBag

\* C9: every step other than a START leaves the queue as it is or removes
\* its first element, which becomes the current scope.
C9_QueueOnlyShrinks ==
  [][\/ nstart' # nstart
     \/ scopeQueue' = scopeQueue
     \/ /\ scopeQueue # <<>>
        /\ scopeQueue' = Tail(scopeQueue)
        /\ currentScope' = Head(scopeQueue)]_vars

\* the first scope advance of a run that queued two scopes behind the first
C9_Witness ==
  /\ phase = 2
  /\ Len(scopeQueue) = 1
  /\ ev.act \in EndCmds
  /\ \E h \in InFlight :
       h.cmd = ev.act /\ h.pc = "bs_query" /\ h.scope = currentScope

\* C10: once the run is complete (the queue is empty, a flush was accepted,
\* no handler is suspended, no page load is awaited and the scroll driver
\* is idle), no STOP, SCROLL_FINISHED, PROCESS or CLEAR step navigates,
\* starts the scroll driver or hands a flush to the sink.
C10_DoneIsTerminal ==
  [][(/\ done
      /\ scopeQueue = <<>>
      /\ sink # <<>>
      /\ inflight = EmptyBag
      /\ listeners = 0
      /\ scroller = "idle"
      /\ ev'.act \in EndCmds \cup {"PROCESS", "CLEAR"}) =>
       \A i \in DOMAIN ev'.out :
         ev'.out[i].k \notin {"tabs.update", "tabs.reload", "SCROLL_START",
                              "downloads.download"}]_vars

\* ------------------------------------------- properties of the pipeline
\* every value nested in v, v included
RECURSIVE SubValues(_)
SubValues(v) ==
  {v} \cup UNION {SubValues(w) : w \in Range(ObjectValues(v))}

\* the tweets a parsed response holds anywhere, and their ids
TweetsIn(v) == {w \in SubValues(v) : OptGet(w, "__typename") = Str("Tweet")}

IdsIn(v) == {Get(w, "rest_id") : w \in TweetsIn(v)}

HasClearCache(v) ==
  \E w \in SubValues(v) : OptGet(w, "type") = Str("TimelineClearCache")

\* C11: the store never holds an id twice; a PROCESS call without a cache
\* clear leaves every stored record in its place with its content, a record
\* it adds is the flattened form of a tweet of the payload, and a call
\* whose tweets are all stored leaves the store as it was.
C11_FirstWriteWins ==
  [][ev'.act = "PROCESS" =>
       /\ \A i, j \in DOMAIN tweets' :
            tweets'[i].key = tweets'[j].key => i = j
       /\ ~HasClearCache(ev'.inp.val) =>
            /\ Len(tweets') >= Len(tweets)
            /\ SubSeq(tweets', 1, Len(tweets)) = tweets
            /\ \A i \in (Len(tweets) + 1)..Len(tweets') :
                 \E w \in TweetsIn(ev'.inp.val) :
                   /\ tweets'[i].key = Get(w, "rest_id")
                   /\ tweets'[i].rec = flatten(w)
            /\ IdsIn(ev'.inp.val) \subseteq MapKeys(tweets) => tweets' = tweets
     ]_vars

\* a call that met tweet 1 with other fields than the stored ones
C11_Witness ==
  /\ ev.act = "PROCESS"
  /\ ev.reply.success
  /\ T1b \in TweetsIn(ev.inp.val)
  /\ \E i \in DOMAIN tweets :
       tweets[i].key = Str("1") /\ tweets[i].rec = flatten(T1)

\* C12: a PROCESS call, without a cache clear, whose tweets were all stored
\* when it began adds nothing: it reports added 0 and the size the store
\* had, which is the total the call before it reported.
C12_SameIdSameTotal ==
  [][(/\ ev'.act = "PROCESS"
      /\ ev'.reply.success
      /\ ~HasClearCache(ev'.inp.val)
      /\ IdsIn(ev'.inp.val) \subseteq MapKeys(tweets)) =>
       /\ ev'.reply.added = 0
       /\ ev'.reply.total = Len(tweets)
       /\ (ev.act = "PROCESS" /\ ev.reply.success) =>
            ev'.reply.total = ev.reply.total]_vars

\* the second of two calls with tweets 1 and 2: nothing added, total 2
C12_Witness ==
  /\ ev.act = "PROCESS"
  /\ ev.reply.success
  /\ ev.reply.added = 0
  /\ ev.reply.total = 2
  /\ IdsIn(ev.inp.val) = {Str("1"), Str("2")}

\* the instruction list the locator finds in a parsed response
InstructionsOf(v) ==
  LET tl == extractTimeline(v)
  IN IF Truthy(tl) THEN Get(tl, "instructions").el ELSE <<>>

KindOf(instr) == OptGet(instr, "type")

IsAllowed(instr) == KindOf(instr).t = "s" /\ KindOf(instr).v \in InstrTypes

IsClearCache(instr) == KindOf(instr) = Str("TimelineClearCache")

\* the entry list by first-non-null precedence: entries, else the single
\* entry, else module.items, else nothing
FirstNonNullRoot(instr) ==
  IF ~IsNullish(Get(instr, "entries")) THEN Get(instr, "entries")
  ELSE IF ~IsNullish(Get(instr, "entry")) THEN Arr(<< Get(instr, "entry") >>)
  ELSE IF ~IsNullish(OptGet(Get(instr, "module"), "items"))
    THEN Get(Get(instr, "module"), "items")
  ELSE Arr(<<>>)

\* C13: a PROCESS call on a response with one instruction of an allowed
\* kind leaves the store that the walk of the instruction's entry list
\* yields, the list being chosen by first-non-null precedence among
\* entries, entry and module.items.
C13_FirstNonNullPrecedence ==
  [][(/\ ev'.act = "PROCESS"
      /\ Len(InstructionsOf(ev'.inp.val)) = 1
      /\ IsAllowed(InstructionsOf(ev'.inp.val)[1])) =>
       LET root == FirstNonNullRoot(InstructionsOf(ev'.inp.val)[1])
       IN tweets' = Walk(root.el, [tw |-> tweets, added |-> 0, ok |-> TRUE]).tw
     ]_vars

\* C14: a PROCESS call on a response whose instructions are all outside
\* the allow-list succeeds with added 0 and leaves the store as it was, or
\* empty if one of them is a cache clear; a successful call on a response
\* with one instruction of an allowed kind that carries tweets stores one.
C14_OnlyAllowedKinds ==
  [][(ev'.act = "PROCESS" /\ InstructionsOf(ev'.inp.val) # <<>>) =>
       LET instrs == InstructionsOf(ev'.inp.val)
       IN /\ (\A i \in DOMAIN instrs :
                ~IsNullish(instrs[i]) /\ ~IsAllowed(instrs[i])) =>
               /\ ev'.reply.success
               /\ ev'.reply.added = 0
               /\ tweets' = IF \E i \in DOMAIN instrs : IsClearCache(instrs[i])
                              THEN <<>> ELSE tweets
          /\ (/\ Len(instrs) = 1
              /\ IsAllowed(instrs[1])
              /\ ev'.reply.success
              /\ IdsIn(instrs[1]) # {}) =>
               MapKeys(tweets') \cap IdsIn(instrs[1]) # {}]_vars

\* an instruction of an unknown kind that carries tweet 3 was skipped on a
\* store that holds other tweets
C14_Witness ==
  /\ ev.act = "PROCESS"
  /\ ev.reply.success
  /\ Len(InstructionsOf(ev.inp.val)) = 1
  /\ KindOf(InstructionsOf(ev.inp.val)[1]) = Str("TimelineShowAlert")
  /\ IdsIn(ev.inp.val) = {Str("3")}
  /\ tweets # <<>>
  /\ Str("3") \notin MapKeys(tweets)

\* the instructions after the last cache clear of a list
RECURSIVE AfterLastClear(_)
AfterLastClear(instrs) ==
  IF \E i \in DOMAIN instrs : IsClearCache(instrs[i])
    THEN AfterLastClear(Tail(instrs))
    ELSE instrs

\* C15: after a successful PROCESS call on a response with a cache clear
\* the store holds the tweets of the instructions that follow the last
\* cache clear, and nothing else: neither what it held before the call nor
\* what the earlier instructions of the response added.
C15_ClearCacheMidList ==
  [][(/\ ev'.act = "PROCESS"
      /\ ev'.reply.success
      /\ \E i \in DOMAIN InstructionsOf(ev'.inp.val) :
           IsClearCache(InstructionsOf(ev'.inp.val)[i])) =>
       LET later == AfterLastClear(InstructionsOf(ev'.inp.val))
       IN /\ MapKeys(tweets') = UNION {IdsIn(later[i]) : i \in DOMAIN later}
          /\ \A i \in DOMAIN tweets' :
               \E j \in DOMAIN later :
                 \E w \in TweetsIn(later[j]) : tweets'[i].rec = flatten(w)
     ]_vars

\* a cache clear between two additions: two tweets counted, one stored
C15_Witness ==
  /\ ev.act = "PROCESS"
  /\ ev.reply.success
  /\ HasClearCache(ev.inp.val)
  /\ ev.reply.added = 2
  /\ ev.reply.total = 1
  /\ MapKeys(tweets) = {Str("1")}

\* a wrapper: an entry with nested entries under content.items or item.items
NestedItems(ent) ==
  LET c == OptGet(OptGet(ent, "content"), "items")
      i == OptGet(OptGet(ent, "item"), "items")
  IN IF c.t = "a" /\ c.el # <<>> THEN c.el
     ELSE IF i.t = "a" /\ i.el # <<>> THEN i.el
     ELSE <<>>

IsWrapper(ent) == NestedItems(ent) # <<>>

RECURSIVE AllNested(_)
AllNested(list) ==
  IF list = <<>> THEN <<>>
  ELSE NestedItems(Head(list)) \o AllNested(Tail(list))

\* the entries of a list that are not wrappers, level by level: those of
\* the list itself, then those nested one level down, and so on
RECURSIVE LevelOrder(_)
LevelOrder(list) ==
  IF list = <<>> THEN <<>>
  ELSE SeqFilter(list, LAMBDA ent : ~IsWrapper(ent))
         \o LevelOrder(AllNested(list))

\* the tweet of an entry, at content.itemContent or at item.itemContent;
\* Null when neither place holds one
EntityAt(ent, place) ==
  OptGet(OptGet(OptGet(OptGet(ent, place), "itemContent"), "tweet_results"),
         "result")

EntityOf(ent) ==
  IF OptGet(EntityAt(ent, "content"), "__typename") = Str("Tweet")
    THEN EntityAt(ent, "content")
  ELSE IF OptGet(EntityAt(ent, "item"), "__typename") = Str("Tweet")
    THEN EntityAt(ent, "item")
  ELSE Null

\* the store after adding the tweets of the entries of a list, in order,
\* each unless its id is stored
RECURSIVE AddAll(_, _)
AddAll(map, list) ==
  IF list = <<>> THEN map
  ELSE LET w == EntityOf(Head(list))
       IN IF w = Null \/ MapHas(map, Get(w, "rest_id"))
            THEN AddAll(map, Tail(list))
            ELSE AddAll(MapSet(map, Get(w, "rest_id"), flatten(w)), Tail(list))

\* an entry that keeps content and item apart: at most one of them is set
IsPlain(ent) ==
  IsNullish(OptGet(ent, "content")) \/ IsNullish(OptGet(ent, "item"))

\* the one instruction of a response that has one instruction of an allowed
\* kind
HasOneAllowed(v) ==
  Len(InstructionsOf(v)) = 1 /\ IsAllowed(InstructionsOf(v)[1])

\* C16: a successful PROCESS call on a response with one instruction of an
\* allowed kind appends to the store the tweets of the entries that are not
\* wrappers, level by level in list order, each once.
C16_BreadthFirstOnce ==
  [][(/\ ev'.act = "PROCESS"
      /\ ev'.reply.success
      /\ HasOneAllowed(ev'.inp.val)) =>
       \A leaves \in {LevelOrder(ResolveRoot(InstructionsOf(ev'.inp.val)[1]).el)} :
         (\A i \in DOMAIN leaves : IsPlain(leaves[i])) =>
           tweets' = AddAll(tweets, leaves)]_vars

\* two levels of wrappers walked on an empty store: tweet 3 of the list
\* itself, then tweet 2 one level down, then tweet 1 two levels down
C16_Witness ==
  /\ ev.act = "PROCESS"
  /\ ev.reply.success
  /\ HasOneAllowed(ev.inp.val)
  /\ \E i \in DOMAIN ResolveRoot(InstructionsOf(ev.inp.val)[1]).el :
       \E j \in DOMAIN NestedItems(ResolveRoot(InstructionsOf(ev.inp.val)[1]).el[i]) :
         IsWrapper(NestedItems(ResolveRoot(InstructionsOf(ev.inp.val)[1]).el[i])[j])
  /\ [i \in DOMAIN tweets |-> tweets[i].key] = << Str("3"), Str("2"), Str("1") >>

\* C17: after a successful PROCESS call on a response with one instruction
\* of an allowed kind, the store holds the id of every entry that is not a
\* wrapper and has a tweet at content.itemContent or at item.itemContent.
C17_EitherPath ==
  [][(/\ ev'.act = "PROCESS"
      /\ ev'.reply.success
      /\ HasOneAllowed(ev'.inp.val)) =>
       \A leaves \in {LevelOrder(ResolveRoot(InstructionsOf(ev'.inp.val)[1]).el)} :
         \A i \in DOMAIN leaves :
           EntityOf(leaves[i]) # Null =>
             MapHas(tweets', Get(EntityOf(leaves[i]), "rest_id"))]_vars

\* C18: a PROCESS call on a response with one instruction of an allowed
\* kind whose list holds an entry without a tweet succeeds, and the store
\* then holds the tweets of the other entries of the list.
C18_StructuralDropped ==
  [][(/\ ev'.act = "PROCESS"
      /\ HasOneAllowed(ev'.inp.val)) =>
       \A leaves \in {LevelOrder(ResolveRoot(InstructionsOf(ev'.inp.val)[1]).el)} :
         (\E i \in DOMAIN leaves : EntityOf(leaves[i]) = Null) =>
           /\ ev'.reply.success
           /\ tweets' = AddAll(tweets, leaves)]_vars

\* every value of a nested value in pre-order: the value, then what each
\* of its properties (or elements) holds, in enumeration order
RECURSIVE PreOrder(_)
RECURSIVE PreOrderAll(_)
PreOrderAll(vals) ==
  IF vals = <<>> THEN <<>>
  ELSE PreOrder(Head(vals)) \o PreOrderAll(Tail(vals))

PreOrder(v) == << v >> \o PreOrderAll(ObjectValues(v))

\* an object exposing an `instructions` sequence
IsContainer(v) == v.t = "o" /\ Get(v, "instructions").t = "a"

\* the positions of the containers in a pre-order listing
Containers(p) == {i \in DOMAIN p : IsContainer(p[i])}

\* C19: the locator returns the first container of the parsed response in
\* pre-order (so none of the objects around it is a container), and Null
\* when the response holds no container; a call is accepted only when
\* there is one.
C19_OutermostContainer ==
  (ev.act = "PROCESS" /\ ev.inp.parses) =>
    \A p \in {PreOrder(ev.inp.val)} :
      /\ extractTimeline(ev.inp.val) =
           IF Containers(p) = {} THEN Null
           ELSE p[CHOOSE i \in Containers(p) : \A j \in Containers(p) : i <= j]
      /\ ev.reply.success => Containers(p) # {}

\* a response with two containers, neither of them the response itself: the
\* call is accepted and the instructions of the first one are walked
C19_Witness ==
  /\ ev.act = "PROCESS"
  /\ ev.inp.parses
  /\ Cardinality(Containers(PreOrder(ev.inp.val))) = 2
  /\ ~IsContainer(ev.inp.val)
  /\ ev.reply.success
  /\ ev.reply.added = 1
  /\ [i \in DOMAIN tweets |-> tweets[i].key] = << Str("1") >>

\* a response that does not parse, or that holds no container
IsSoftFailure(data) ==
  ~data.parses \/ Containers(PreOrder(data.val)) = {}

\* C20: a PROCESS call on a response that does not parse or holds no
\* container replies success false and leaves the store, the current scope,
\* the scope queue, the saved username and the scroll budget as they were;
\* the PROCESS call after it acts on the store as that call left it.
C20_SoftFailure ==
  [][/\ (ev'.act = "PROCESS" /\ IsSoftFailure(ev'.inp)) =>
          /\ ev'.reply = FailReply
          /\ tweets' = tweets
          /\ UNCHANGED << currentScope, scopeQueue, savedUsername, startParams >>
     /\ (/\ ev.act = "PROCESS" /\ IsSoftFailure(ev.inp)
         /\ ev'.act = "PROCESS" /\ ~IsSoftFailure(ev'.inp)) =>
          /\ tweets' = Dispatch(Get(extractTimeline(ev'.inp.val), "instructions").el,
                                [tw |-> tweets, added |-> 0, ok |-> TRUE]).tw
          /\ ev'.reply.sent]_vars

\* a response without a container has been refused in the first of two
\* scopes, with tweets in the store
C20_Witness ==
  /\ ev.act = "PROCESS"
  /\ ev.inp.parses
  /\ IsSoftFailure(ev.inp)
  /\ ev.reply = FailReply
  /\ tweets # <<>>
  /\ currentScope = Str("tweets")
  /\ scopeQueue # <<>>

\* ------------------------------------------------ locations and scopes
\* The batch run without timeline responses (the store stays empty), over
\* more locations and scope lists, with the user moving the active tab.
IdLocs ==
  { Loc("x.com", "alice", ""), Loc("x.com", "bob", ""),
    Loc("x.com", "i", "bookmarks"), Loc("x.com", "home", ""),
    Loc("example.org", "page", "") }

\* msg.scopes of the START commands
IdScopeLists ==
  { Undef,
    Arr(<< Str("bookmarks") >>),
    Arr(<< Str("tweets"), Str("replies") >>),
    Arr(<< Str("likes"), Str("bookmarks") >>),
    Arr(<< Str("tweets"), Str("bookmarks"), Str("likes") >>),
    Arr(<< Str("bookmarks"), Str("replies"), Str("tweets") >>) }

\* the user opens another location in the active tab; the page that is
\* left takes its scroll driver with it
Visit(loc) ==
  /\ loc # tab.url
  /\ tab' = [url |-> loc, loading |-> TRUE]
  /\ scroller' = "idle"
  /\ ev' = Event("visit", "enter", <<>>, NoReply)
  /\ UNCHANGED << tweets, scopeQueue, currentScope, startParams, savedUsername,
                  listeners, inflight, sink, phase, done, nstart, nend >>

IdInit ==
  /\ tweets = <<>>
  /\ scopeQueue = <<>>
  /\ currentScope = Null
  /\ startParams = [maxScrolls |-> Undef]
  /\ savedUsername = Null
  /\ tab \in {[url |-> u, loading |-> FALSE] : u \in IdLocs}
  /\ listeners = 0
  /\ scroller = "idle"
  /\ inflight = EmptyBag
  /\ sink = <<>>
  /\ phase = 0
  /\ ev = Event("init", "init", <<>>, NoReply)
  /\ done = FALSE
  /\ nstart = 0
  /\ nend = 0

IdNext ==
  \/ \E scopes \in IdScopeLists, maxScrolls \in Budgets : Start(scopes, maxScrolls)
  \/ Stop
  \/ ScrollFinished
  \/ \E h \in InFlight : BeginScopeQueried(h)
  \/ \E h \in InFlight : BeginScopeNavigated(h)
  \/ \E h \in InFlight : BeginScopeRejected(h)
  \/ PageReady
  \/ \E loc \in IdLocs : Visit(loc)

IdSpec == IdInit /\ [][IdNext]_vars

\* the scopes whose destination carries the user name, and the one whose
\* destination is fixed
NamedScopes == {Str("tweets"), Str("replies"), Str("likes")}

BookmarksLoc == Loc("x.com", "i", "bookmarks")

\* a location whose first path segment is no user name
ShowsNoName(url) ==
  \/ url.host \notin {"x.com", "twitter.com"}
  \/ url.seg = ""
  \/ url.seg \in RESERVED

\* the suspended handler a step takes up again
Resumed(h) == CopiesIn(h, inflight') < CopiesIn(h, inflight)

\* C21: when beginScope finds the tab at the location makeUrl returns it
\* reloads the tab, and the tab is loading again; when the tab is elsewhere
\* it asks the tab to go to that location, and once that is granted the tab
\* is loading the location.
C21_ReloadOrNavigate ==
  [][/\ ev'.step = "bs_query" =>
          \E h \in InFlight :
            /\ h.pc = "bs_query"
            /\ Resumed(h)
            /\ IF makeUrl(h.scope, tab.url, savedUsername).url = tab.url
                 THEN /\ ev'.out = << Out("tabs.reload", tab.url) >>
                      /\ tab' = [url |-> tab.url, loading |-> TRUE]
                 ELSE /\ ev'.out =
                           << Out("tabs.update",
                                  makeUrl(h.scope, tab.url, savedUsername).url) >>
                      /\ ev'.out[1].arg # tab.url
     /\ ev'.step = "nav_resolved" =>
          \E h \in InFlight :
            /\ h.pc = "bs_nav"
            /\ Resumed(h)
            /\ tab' = [url |-> h.target, loading |-> TRUE]]_vars

\* the tweets scope has begun on the profile the tab shows: the tab is
\* reloaded in place
C21_Witness ==
  /\ ev.step = "bs_query"
  /\ currentScope = Str("tweets")
  /\ ev.out = << Out("tabs.reload", Loc("x.com", "alice", "")) >>
  /\ tab = [url |-> Loc("x.com", "alice", ""), loading |-> TRUE]
  /\ savedUsername = Str("alice")

\* C22: once a user name is saved it stays as it is; stated for the step
\* that follows the entry of a STOP while no other handler is suspended.
C22_IdentityCapturedOnce ==
  [][(/\ Truthy(savedUsername)
      /\ ev.act = "STOP" /\ ev.step = "enter"
      /\ BagCardinality(inflight) = 1) =>
       savedUsername' = savedUsername]_vars

\* C23: when a scope that carries the user name begins at a location that
\* shows no user name and a name is saved, the tab is sent to the location
\* built from the saved name, and the name stays saved.
C23_IdentityPersists ==
  [][(/\ ev'.step = "bs_query"
      /\ ShowsNoName(tab.url)
      /\ Truthy(savedUsername)) =>
       /\ savedUsername' = savedUsername
       /\ \E h \in InFlight :
            /\ h.pc = "bs_query"
            /\ Resumed(h)
            /\ h.scope \in NamedScopes =>
                 ev'.out =
                   << Out("tabs.update",
                          Loc("x.com", savedUsername.v,
                              CASE h.scope = Str("tweets") -> ""
                                [] h.scope = Str("replies") -> "with_replies"
                                [] h.scope = Str("likes") -> "likes")) >>]_vars

\* the likes scope has begun on the bookmarks page, after the tweets scope
\* saved the name: the tab is sent to the likes of that name
C23_Witness ==
  /\ ev.step = "bs_query"
  /\ currentScope = Str("likes")
  /\ tab.url = BookmarksLoc
  /\ savedUsername = Str("alice")
  /\ ev.out = << Out("tabs.update", Loc("x.com", "alice", "likes")) >>

\* C24: when the bookmarks scope begins and no user name is saved or shown,
\* the tab is sent to the bookmarks page, or reloaded when it is there.
C24_BookmarksWithoutIdentity ==
  [][(/\ ev'.step = "bs_query"
      /\ ~Truthy(savedUsername')
      /\ \E h \in InFlight :
           h.pc = "bs_query" /\ Resumed(h) /\ h.scope = Str("bookmarks")) =>
       ev'.out = IF tab.url = BookmarksLoc
                   THEN << Out("tabs.reload", tab.url) >>
                   ELSE << Out("tabs.update", BookmarksLoc) >>]_vars

\* C25: a rejected tabs.update leaves the scope queue, the current scope,
\* the store and the run parameters as they were, and the STOP that
\* follows it on an empty store takes the next scope from the front of the
\* queue, or ends the run when the queue is empty.
C25_RejectedNavigationContinues ==
  [][/\ ev'.step = "nav_rejected" =>
          /\ ev'.reply = FailReply
          /\ UNCHANGED << scopeQueue, currentScope, tweets, startParams,
                          savedUsername, done >>
     /\ (/\ ev.step = "nav_rejected"
         /\ ev'.act = "STOP" /\ ev'.step = "enter"
         /\ tweets = <<>>) =>
          IF scopeQueue # <<>>
            THEN /\ currentScope' = Head(scopeQueue)
                 /\ scopeQueue' = Tail(scopeQueue)
                 /\ ~done'
            ELSE done']_vars

\* the navigation of the first of three scopes was rejected; two scopes
\* are still queued
C25_Witness ==
  /\ ev.step = "nav_rejected"
  /\ ev.act = "START"
  /\ Len(scopeQueue) = 2
  /\ listeners = 0
  /\ ~done

\* C26: when the tab reports that its page is complete, SCROLL_START goes
\* out at most once, with the scroll count of the last START; stated for
\* runs whose scopes are scope tags and whose user name is known, at a
\* moment when no handler is suspended.
C26_ScrollStartOncePerPhase ==
  [][(/\ ev'.act = "onUpdated"
      /\ Truthy(currentScope)
      /\ Truthy(savedUsername)
      /\ inflight = EmptyBag) =>
       /\ tab.loading
       /\ Len(ev'.out) <= 1
       /\ \A i \in DOMAIN ev'.out :
            ev'.out[i] = Out("SCROLL_START", startParams.maxScrolls)]_vars

\* ------------------------------------------------------ tweet shapes
\* PROCESS_TIMELINE_DATA and CLEAR over responses of one tweet each, the
\* tweets differing in the optional fields they carry.
Tweet(id, fields) ==
  Obj(<< <<"__typename", Str("Tweet")>>, <<"rest_id", Str(id)>> >> \o fields)

ResultOf(id) == Obj(<< <<"result", Obj(<< <<"rest_id", Str(id)>> >>)>> >>)

\* no optional field at all
BareTweet == Tweet("2", <<>>)

\* every optional field present and null
NullTweet ==
  Tweet("2", << <<"legacy", Null>>, <<"core", Null>>,
                <<"quoted_status_result", Null>>,
                <<"retweeted_status_result", Null>> >>)

\* every id field present and empty
EmptyIdsTweet ==
  Tweet("2",
        << <<"legacy",
             Obj(<< <<"referenced_tweets", Arr(<< Obj(<<>>) >>)>>,
                    <<"in_reply_to_status_id_str", Str("")>>,
                    <<"quoted_status_id_str", Null>> >>)>>,
           <<"quoted_status_result", Obj(<< <<"result", Obj(<<>>)>> >>)>>,
           <<"retweeted_status_result",
             Obj(<< <<"result", Obj(<< <<"rest_id", Str("")>> >>)>> >>)>> >>)

\* every field present; ids 7 and 9 occur twice
FullTweet ==
  Tweet("1",
        << <<"legacy",
             Obj(<< <<"created_at", Str("Mon")>>,
                    <<"full_text", Str("full")>>,
                    <<"text", Str("short")>>,
                    <<"lang", Str("en")>>,
                    <<"favorite_count", Num(3)>>,
                    <<"retweet_count", Num(1)>>,
                    <<"reply_count", Num(2)>>,
                    <<"quote_count", Num(0)>>,
                    <<"referenced_tweets",
                      Arr(<< Obj(<< <<"id_str", Str("7")>> >>),
                             Obj(<< <<"id_str", Str("8")>> >>) >>)>>,
                    <<"in_reply_to_status_id_str", Str("7")>>,
                    <<"quoted_status_id_str", Str("9")>> >>)>>,
           <<"core",
             Obj(<< <<"user_results",
                      Obj(<< <<"result",
                               Obj(<< <<"legacy",
                                        Obj(<< <<"screen_name", Str("alice")>>
                                            >>)>> >>)>> >>)>> >>)>>,
           <<"quoted_status_result", ResultOf("9")>>,
           <<"retweeted_status_result", ResultOf("6")>> >>)

\* a tweet whose reply-to id is its own id
SelfReplyTweet ==
  Tweet("3", << <<"legacy",
                  Obj(<< <<"in_reply_to_status_id_str", Str("3")>> >>)>> >>)

\* text without full_text
TextOnlyTweet ==
  Tweet("3", << <<"legacy", Obj(<< <<"text", Str("short")>> >>)>> >>)

\* a quoted tweet and nothing else
QuotedOnlyTweet == Tweet("3", << <<"quoted_status_result", ResultOf("9")>> >>)

FlatTweets ==
  { T1, FullTweet, BareTweet, NullTweet, EmptyIdsTweet, SelfReplyTweet,
    TextOnlyTweet, QuotedOnlyTweet }

FlatPayloads ==
  { Text(Page(<< AddEntries(<< TweetEntry(tw) >>) >>)) : tw \in FlatTweets }

FlatNext ==
  \/ \E data \in FlatPayloads : Process(data)
  \/ Clear

FlatSpec == PipeInit /\ [][FlatNext]_vars

\* the stored record of an id
RecordOf(map, k) == map[CHOOSE i \in DOMAIN map : map[i].key = k].rec

\* a tweet none of whose optional objects is there
IsBare(tw) ==
  /\ IsNullish(Get(tw, "legacy"))
  /\ IsNullish(Get(tw, "core"))
  /\ IsNullish(Get(tw, "quoted_status_result"))
  /\ IsNullish(Get(tw, "retweeted_status_result"))

\* the record of a tweet that has nothing but its id
DefaultRecord(tw) ==
  [ tweet_id |-> Get(tw, "rest_id"),
    created_at |-> Undef, text |-> Undef, lang |-> Undef,
    favorite |-> Undef, retweet |-> Undef, reply |-> Undef, quote |-> Undef,
    favorite_count |-> Undef, retweet_count |-> Undef, reply_count |-> Undef,
    quote_count |-> Undef,
    user_handle |-> Undef,
    parent_ids |-> Arr(<<>>),
    raw |-> tw ]

\* C27: a PROCESS call on a response whose tweets have none of the optional
\* objects succeeds, and a tweet it adds is stored as the record with the
\* id, no other value, no parent id and the tweet itself as raw; the call
\* changes nothing but the store.
C27_FlattenBareTweet ==
  [][(/\ ev'.act = "PROCESS"
      /\ ev'.inp.parses
      /\ TweetsIn(ev'.inp.val) # {}
      /\ \A tw \in TweetsIn(ev'.inp.val) : IsBare(tw)) =>
       /\ ev'.reply.success
       /\ \A tw \in TweetsIn(ev'.inp.val) :
            /\ MapHas(tweets', Get(tw, "rest_id"))
            /\ ~MapHas(tweets, Get(tw, "rest_id")) =>
                 RecordOf(tweets', Get(tw, "rest_id")) = DefaultRecord(tw)
       /\ UNCHANGED << scopeQueue, currentScope, startParams, savedUsername,
                       tab, listeners, scroller, inflight, sink >>]_vars

\* the tweet without optional fields has just been stored
C27_Witness ==
  /\ ev.act = "PROCESS"
  /\ ev.reply.success
  /\ ev.reply.added = 1
  /\ TweetsIn(ev.inp.val) = {BareTweet}
  /\ MapHas(tweets, Str("2"))
  /\ RecordOf(tweets, Str("2")) = DefaultRecord(BareTweet)

\* an id that is there and not empty
Present(v) == IF IsNullish(v) \/ v = Str("") THEN <<>> ELSE << v >>

RECURSIVE PresentIds(_)
PresentIds(refs) ==
  IF refs = <<>> THEN <<>>
  ELSE Present(OptGet(Head(refs), "id_str")) \o PresentIds(Tail(refs))

\* the ids a tweet refers to: referenced tweets, reply-to, quoted status,
\* nested quoted tweet, retweeted original
RelatedIds(tw) ==
  LET l == Get(tw, "legacy")
      refs == OptGet(l, "referenced_tweets")
  IN (IF refs.t = "a" THEN PresentIds(refs.el) ELSE <<>>)
     \o Present(OptGet(l, "in_reply_to_status_id_str"))
     \o Present(OptGet(l, "quoted_status_id_str"))
     \o Present(OptGet(OptGet(OptGet(tw, "quoted_status_result"), "result"),
                       "rest_id"))
     \o Present(OptGet(OptGet(OptGet(tw, "retweeted_status_result"), "result"),
                       "rest_id"))

\* C28: parent_ids of every stored record lists the ids its tweet refers
\* to: referenced tweets, reply-to, quoted status, nested quoted tweet,
\* retweeted original, in this order, those that are there and not empty,
\* each as often as it occurs.
C28_ParentIdsInOrder ==
  \A i \in DOMAIN tweets :
    tweets[i].rec.parent_ids = Arr(RelatedIds(tweets[i].rec.raw))

\* the tweet with every field is stored: 7 and 9 are listed twice
C28_Witness ==
  /\ MapHas(tweets, Str("1"))
  /\ RecordOf(tweets, Str("1")).raw = FullTweet
  /\ RecordOf(tweets, Str("1")).parent_ids =
       Arr(<< Str("7"), Str("8"), Str("7"), Str("9"), Str("9"), Str("6") >>)

\* C29: parent_ids of a stored record does not hold the record's own id.
C29_NoSelfReference ==
  \A i \in DOMAIN tweets :
    tweets[i].rec.tweet_id \notin Range(tweets[i].rec.parent_ids.el)

\* C30: in every stored record each short name and its *_count alias hold
\* the count of the tweet's legacy object; the response with the one tweet
\* 1 "hi" with favorite count 3, taken on the empty store, leaves one
\* record with favorite and favorite_count 3 and no parent id.
C30_AliasesAgree ==
  /\ \A i \in DOMAIN tweets :
       LET rec == tweets[i].rec
           l == OptGet(rec.raw, "legacy")
       IN /\ rec.favorite = OptGet(l, "favorite_count")
          /\ rec.favorite_count = rec.favorite
          /\ rec.retweet = OptGet(l, "retweet_count")
          /\ rec.retweet_count = rec.retweet
          /\ rec.reply = OptGet(l, "reply_count")
          /\ rec.reply_count = rec.reply
          /\ rec.quote = OptGet(l, "quote_count")
          /\ rec.quote_count = rec.quote
  /\ (/\ ev.act = "PROCESS"
      /\ ev.inp = Text(Page(<< AddEntries(<< TweetEntry(T1) >>) >>))
      /\ ev.reply.total = 1 /\ ev.reply.added = 1) =>
       /\ Len(tweets) = 1
       /\ tweets[1].key = Str("1")
       /\ tweets[1].rec.tweet_id = Str("1")
       /\ tweets[1].rec.text = Str("hi")
       /\ tweets[1].rec.favorite = Num(3)
       /\ tweets[1].rec.favorite_count = Num(3)
       /\ tweets[1].rec.parent_ids = Arr(<<>>)

\* the tweet with the four counts 3, 1, 2, 0 is stored
C30_Witness ==
  /\ MapHas(tweets, Str("1"))
  /\ RecordOf(tweets, Str("1")).raw = FullTweet
  /\ RecordOf(tweets, Str("1")).favorite_count = Num(3)
  /\ RecordOf(tweets, Str("1")).retweet_count = Num(1)
  /\ RecordOf(tweets, Str("1")).reply_count = Num(2)
  /\ RecordOf(tweets, Str("1")).quote_count = Num(0)

\* ------------------------------------------------------------- the flush
\* The batch run and the flush it ends with, over stores of up to three
\* records in several insertion orders, runs with and without a scope,
\* started at several locations.
FlushLocs ==
  { Loc("x.com", "alice", ""), Loc("x.com", "alice", "likes"),
    Loc("x.com", "alice", "with_replies"), Loc("x.com", "i", "bookmarks"),
    Loc("x.com", "likes", ""), Loc("x.com", "likes", "with_replies"),
    Loc("x.com", "", ""), Loc("example.org", "page", "") }

\* msg.scopes of the START commands
FlushScopeLists ==
  { Arr(<<>>), Arr(<< Str("likes") >>),
    Arr(<< Str("tweets"), Str("replies") >>) }

\* msg.data of the PROCESS_TIMELINE_DATA messages
FlushPayloads ==
  { Text(Page(<< AddEntries(<< TweetEntry(T2), TweetEntry(T1) >>) >>)),
    Text(Page(<< AddEntries(<< TweetEntry(T3) >>) >>)) }

FlushInit ==
  /\ tweets = <<>>
  /\ scopeQueue = <<>>
  /\ currentScope = Null
  /\ startParams = [maxScrolls |-> Undef]
  /\ savedUsername = Null
  /\ tab \in {[url |-> u, loading |-> FALSE] : u \in FlushLocs}
  /\ listeners = 0
  /\ scroller = "idle"
  /\ inflight = EmptyBag
  /\ sink = <<>>
  /\ phase = 0
  /\ ev = Event("init", "init", <<>>, NoReply)
  /\ done = FALSE
  /\ nstart = 0
  /\ nend = 0

FlushNext ==
  \/ \E scopes \in FlushScopeLists, maxScrolls \in Budgets : Start(scopes, maxScrolls)
  \/ Stop
  \/ ScrollFinished
  \/ \E data \in FlushPayloads : Process(data)
  \/ Clear
  \/ \E h \in InFlight : BeginScopeQueried(h)
  \/ \E h \in InFlight : BeginScopeNavigated(h)
  \/ \E h \in InFlight : BeginScopeRejected(h)
  \/ \E h \in InFlight : DownloadQueried(h)
  \/ \E h \in InFlight : DownloadResolved(h)
  \/ \E h \in InFlight : DownloadRejected(h)
  \/ PageReady

FlushSpec == FlushInit /\ [][FlushNext]_vars

\* the tweet_id a line of a flush carries
LineId(line) == line[1][2]

\* C31: the sequence download() hands to the sink has one line per stored
\* record, in the order the records were stored; producing it leaves the
\* store as it was; and two sequences produced one right after the other,
\* with no change of the store between them, are equal.
C31_FlushInInsertionOrder ==
  [][\A f \in Outs(ev', "downloads.download") :
       /\ Len(f.recs) = Len(tweets)
       /\ \A i \in DOMAIN tweets :
            /\ LineId(f.recs[i]) = tweets[i].key
            /\ f.recs[i] = JsonStringify(tweets[i].rec)
       /\ tweets' = tweets
       /\ \A g \in Outs(ev, "downloads.download") : g.recs = f.recs]_vars

\* a second flush of a store of three records, stored in the order 2, 1, 3,
\* right after the first
C31_Witness ==
  /\ Len(tweets) = 3
  /\ tweets[1].key = Str("2")
  /\ tweets[2].key = Str("1")
  /\ tweets[3].key = Str("3")
  /\ \E f \in Outs(ev, "downloads.download") :
       /\ Len(f.recs) = 3
       /\ \E h \in InFlight :
            h.pc = "dl_sink" /\ h.snap = f.recs /\ CopiesIn(h, inflight) = 2

\* C32: a record leaves the store only by a START, a CLEAR or a
\* PROCESS_TIMELINE_DATA (TimelineClearCache) step, or in a step at which the
\* sink accepted a flush that holds the record; in particular a record
\* stored while a flush waits for the sink is not dropped when the flush is
\* accepted. Stated for steps with at most one handler suspended.
C32_NoRecordLostAroundFlush ==
  [][(/\ ev'.act \notin {"START", "CLEAR", "PROCESS"}
      /\ BagCardinality(inflight) <= 1) =>
       \A i \in DOMAIN tweets :
         ~MapHas(tweets', tweets[i].key) =>
           \E f \in Outs(ev', "accepted") :
             \E j \in DOMAIN f.recs : LineId(f.recs[j]) = tweets[i].key]_vars

\* C33: two phase-ending commands for one phase advance the queue once and
\* flush the phase's records once: a STOP / SCROLL_FINISHED handler that
\* comes back from the sink moves on to the next scope only if the phase it
\* was sent for is still the current one, and the sink never accepts two
\* flushes written in the same phase.
C33_EndTwiceAdvancesOnce ==
  /\ [][\A h \in InFlight :
          (Resumed(h) /\ h.pc = "dl_sink" /\ phase' # phase) =>
            h.phase = phase]_vars
  /\ [](\A i, j \in DOMAIN sink : sink[i].from = sink[j].from => i = j)

\* ------------------------------------------------------ the run completes
\* One batch run in which the browser settles every promise, the sink
\* accepts every flush, every awaited page load completes and the end
\* commands keep coming: scope lists no longer than the number of end
\* commands delivered after the START.
LiveScopeLists ==
  { l \in ScopeLists : l.t = "a" => Len(l.el) <= MaxEnds - MaxIdleEnds }

\* msg.data of the PROCESS_TIMELINE_DATA messages
LivePayloads ==
  { Text(Page(<< AddEntries(<< TweetEntry(T1) >>) >>)) }

LiveNext ==
  \/ \E scopes \in LiveScopeLists, maxScrolls \in Budgets :
       nstart = 0 /\ Start(scopes, maxScrolls)
  \/ Stop
  \/ ScrollFinished
  \/ \E data \in LivePayloads : Process(data)
  \/ \E h \in InFlight : BeginScopeQueried(h)
  \/ \E h \in InFlight : BeginScopeNavigated(h)
  \/ \E h \in InFlight : BeginScopeRejected(h)
  \/ \E h \in InFlight : DownloadQueried(h)
  \/ \E h \in InFlight : DownloadResolved(h)
  \/ PageReady

LiveSpec ==
  /\ Init
  /\ [][LiveNext]_vars
  /\ WF_vars(Stop \/ ScrollFinished)
  /\ WF_vars(PageReady)
  /\ WF_vars(\E h \in InFlight : BeginScopeQueried(h))
  /\ WF_vars(\E h \in InFlight : BeginScopeNavigated(h) \/ BeginScopeRejected(h))
  /\ WF_vars(\E h \in InFlight : DownloadQueried(h))
  /\ WF_vars(\E h \in InFlight : DownloadResolved(h))

\* C34: every START leads to a state in which the run is complete and the
\* queue is empty; from the START on, the number of beginScope calls and the
\* number of scopes still queued add up to the same number at every step, so
\* that every scope of the run has been begun once when the queue is empty.
C34_RunCompletes ==
  /\ (ev.act = "START" /\ ev.step = "enter") ~> (done /\ scopeQueue = <<>>)
  /\ [][IF nstart' # nstart
          THEN phase' = 1
          ELSE phase' + Len(scopeQueue') = phase + Len(scopeQueue)]_vars

\* a run of two scopes is complete, each phase flushed once, in order
C34_Witness ==
  /\ done
  /\ scopeQueue = <<>>
  /\ phase = 2
  /\ inflight = EmptyBag
  /\ Len(sink) = 2
  /\ sink[1].from = 1 /\ sink[1].at = 1
  /\ sink[2].from = 2 /\ sink[2].at = 2

\* C35: in a successful PROCESS_TIMELINE_DATA reply, total is the size of
\* the store after the call and added is the number of ids the store holds
\* after the call and did not hold before it, so that added <= total, for
\* every response, those with a TimelineClearCache included.
C35_ReplyCounts ==
  [][(ev'.act = "PROCESS" /\ ev'.reply.sent /\ ev'.reply.success) =>
       /\ ev'.reply.total = Len(tweets')
       /\ ev'.reply.added = Cardinality(MapKeys(tweets') \ MapKeys(tweets))
       /\ ev'.reply.added <= ev'.reply.total]_vars

\* ------------------------------------------------- responses that throw
\* PROCESS_TIMELINE_DATA and CLEAR over responses whose walk throws after
\* earlier entries or instructions were applied, next to responses that are
\* stored whole and one that does not parse.
FailPayloads ==
  { Text(Page(<< AddEntries(<< TweetEntry(T1), Null, TweetEntry(T2) >>) >>)),
    Text(Page(<< AddEntries(<< TweetEntry(T3) >>),
                 Instruction("TimelineAddEntries", << <<"entries", Num(5)>> >>)
              >>)),
    Text(Page(<< ClearCache, Null >>)),
    Text(Page(<< AddEntries(<< TweetEntry(T2) >>) >>)),
    Text(Page(<< AddEntries(<< TweetEntry(T1), TweetEntry(T3) >>) >>)),
    Garbage }

FailNext ==
  \/ \E data \in FailPayloads : Process(data)
  \/ Clear

FailSpec == PipeInit /\ [][FailNext]_vars

\* C36: a PROCESS_TIMELINE_DATA call that replies success false leaves the
\* store exactly as it was before the call: nothing added, nothing cleared.
C36_FailureKeepsStore ==
  [][(ev'.act = "PROCESS" /\ ev'.reply.sent /\ ~ev'.reply.success) =>
       tweets' = tweets]_vars

\* C37: a flush tagged with a scope holds only records of that scope's
\* page. While the handler that begins the current scope, a scope after the
\* first (the handler was taken up in the phase before), is still waiting
\* for tabs.query and the tab is not at the scope's
\* location, every record in the store comes from a response of the page
\* that is being left (the store was emptied when the scope was begun); a
\* flush tagged with the current scope and handed to the sink at that
\* moment holds no record.
C37_StaleResponsesNotFlushed ==
  [][\A h \in InFlight :
       (/\ inflight = One(h)
        /\ h.pc = "bs_query"
        /\ h.phase = phase - 1
        /\ phase > 1
        /\ h.scope = currentScope
        /\ Truthy(currentScope)
        /\ tab.url # makeUrl(h.scope, tab.url, savedUsername).url) =>
         \A f \in Outs(ev', "downloads.download") :
           Str(f.tag) = currentScope => f.recs = <<>>]_vars

\* C38: a PROCESS_TIMELINE_DATA step, whatever it replies, leaves the
\* current scope, the queue, the saved user name, the start parameters, the
\* tab, the page-load listeners, the scroll driver, the suspended handlers
\* and the sink as they were and makes no outbound call: it changes nothing
\* but the store.
C38_ProcessOnlyTouchesStore ==
  [][ev'.act = "PROCESS" =>
       /\ UNCHANGED << currentScope, scopeQueue, savedUsername, startParams,
                       tab, listeners, scroller, inflight, sink, phase, done >>
       /\ ev'.out = <<>>]_vars

\* a response has added two records while the scroll driver runs in the
\* first scope of a run, with a scope queued and the user name saved
C38_Witness ==
  /\ ev.act = "PROCESS"
  /\ ev.reply.success
  /\ ev.reply.added = 2
  /\ scroller = "scrolling"
  /\ phase = 1
  /\ scopeQueue # <<>>
  /\ Truthy(currentScope)
  /\ Truthy(savedUsername)
  /\ startParams.maxScrolls = Num(3)

\* C39: a STOP / SCROLL_FINISHED taken up on an empty store hands nothing to
\* the sink and leaves the store empty; with scopes queued the first of them
\* becomes the current scope, leaves the queue and is begun in the same
\* step; with the queue empty the run is complete and the reply is success.
C39_EmptyPhaseAdvances ==
  [][(ev'.act \in EndCmds /\ ev'.step = "enter" /\ tweets = <<>>) =>
       /\ Outs(ev', "downloads.download") = {}
       /\ sink' = sink
       /\ tweets' = <<>>
       /\ IF scopeQueue # <<>>
            THEN /\ currentScope' = Head(scopeQueue)
                 /\ scopeQueue' = Tail(scopeQueue)
                 /\ phase' = phase + 1
                 /\ \E h \in BagToSet(inflight') :
                      /\ h.cmd = ev'.act /\ h.pc = "bs_query"
                      /\ h.scope = Head(scopeQueue)
                      /\ CopiesIn(h, inflight') = CopiesIn(h, inflight) + 1
            ELSE /\ done'
                 /\ ev'.reply = OkReply
                 /\ inflight' = inflight
                 /\ UNCHANGED << currentScope, scopeQueue, phase >>]_vars

\* the scroll driver has finished the first scope without a record in the
\* store: no flush, and the second scope is begun
C39_Witness ==
  /\ ev.act = "SCROLL_FINISHED"
  /\ ev.step = "enter"
  /\ Outs(ev, "downloads.download") = {}
  /\ tweets = <<>>
  /\ sink = <<>>
  /\ phase = 2
  /\ currentScope = Str("bookmarks")
  /\ \E h \in InFlight : h.pc = "bs_query" /\ h.scope = currentScope

\* the order in which download() tries the location tests, and the test of
\* each tag
TagPrecedence == << "likes", "bookmarks", "replies", "tweets" >>

LocationShows(tag, url) ==
  CASE tag = "likes" -> url.seg = "likes" \/ url.sub = "likes"
    [] tag = "bookmarks" -> url.seg = "i" /\ url.sub = "bookmarks"
    [] tag = "replies" -> url.seg = "with_replies" \/ url.sub = "with_replies"
    [] tag = "tweets" -> /\ url.host \in {"x.com", "twitter.com"}
                         /\ url.seg # ""
                         /\ url.sub = ""

\* the first tag in the order whose test the location passes, "bookmarks"
\* when it passes none
TagOfLocation(url) ==
  LET hits == {i \in DOMAIN TagPrecedence : LocationShows(TagPrecedence[i], url)}
  IN IF hits = {} THEN "bookmarks"
     ELSE TagPrecedence[CHOOSE i \in hits : \A j \in hits : i <= j]

\* C40: a flush handed to the sink in the step that enters download() is
\* tagged with the current scope, which is set; download() waits for the
\* active tab's location only when it is entered with no scope set, and the
\* flush it hands to the sink after that wait is tagged with the first of
\* likes, bookmarks, replies, tweets that the location shows, or with
\* bookmarks when it shows none or cannot be read.
C40_FlushTag ==
  [][/\ \A f \in Outs(ev', "downloads.download") :
          IF ev'.step = "enter"
            THEN Truthy(currentScope) /\ Str(f.tag) = currentScope
            ELSE /\ ev'.step = "dl_query"
                 /\ f.tag \in {TagOfLocation(tab.url), "bookmarks"}
     /\ \A h \in BagToSet(inflight') :
          (h.pc = "dl_query" /\ CopiesIn(h, inflight') > CopiesIn(h, inflight)) =>
            /\ ev'.step = "enter"
            /\ ~Truthy(currentScope)
     /\ (ev'.act \in EndCmds /\ ev'.step = "enter" /\ tweets # <<>>
           /\ ~Truthy(currentScope)) =>
          \E h \in BagToSet(inflight') :
            h.pc = "dl_query" /\ CopiesIn(h, inflight') > CopiesIn(h, inflight)]_vars

\* with no scope set, a flush of a store with records is tagged likes at
\* the location x.com/likes, which passes the test for likes and the one
\* for a bare profile
C40_Witness ==
  /\ ev.step = "dl_query"
  /\ ~Truthy(currentScope)
  /\ tab.url = Loc("x.com", "likes", "")
  /\ \E f \in Outs(ev, "downloads.download") : f.tag = "likes" /\ f.recs # <<>>

====
